---------------------------- MODULE Spec2Model ----------------------------
(***************************************************************************)
(* Ether: the block allocator (src/src/allocator.c, lines 1-338) and the   *)
(* etherd request dispatcher with its handle table (same file, lines       *)
(* 339-727).                                                               *)
(*                                                                         *)
(* The specifications share the allocator:                                 *)
(*   SpecAlloc  a local program calling ether_alloc / ether_free /         *)
(*              ether_realloc / ether_write / ether_read / ether_size /    *)
(*              ether_reset_stats;                                         *)
(*   SpecUsage  the same program without ether_reset_stats;                *)
(*   SpecWord   ether_alloc over sizes of the whole machine word;          *)
(*   Spec       the daemon: accept loop, handle_client and the five        *)
(*              command handlers over the process-wide handle table;       *)
(*   SpecClient the client library (src/src/client.c) against any answer   *)
(*              of the network;                                            *)
(*   SpecRemote the client library and the daemon on one connection,       *)
(*              FairRemote with the daemon and recv_response progressing.  *)
(***************************************************************************)
EXTENDS Integers, Sequences, FiniteSets

(***************************************************************************)
(* Bounds of the model.                                                    *)
(***************************************************************************)
\* heap chunks malloc can hand out (addresses 1..MaxAddr)
MaxAddr == 3
\* data bytes range over 0..MaxByte
MaxByte == 1
\* largest size a local caller asks of the allocator
MaxSize == 2
\* size_t arithmetic wraps at WordMod (stands for 2^64); larger than the heap
WordMod == 16
\* calls made by the local program in SpecAlloc
MaxCalls == 3
\* what the two calls that fill the block in SpecFilled take of MaxCalls
FilledCalls == 1
\* headers received by the daemon in Spec
MaxReq == 3
\* connections accepted by the daemon in Spec
MaxConn == 2
\* entries of g_handles (1024 in the source)
HANDLE_SLOTS == 2
\* ETHER_MAX_PAYLOAD (16 MiB in the source)
ETHER_MAX_PAYLOAD == 2
\* entries of the client's cache g_cache[] (4096 in the source)
MAX_HANDLES == 2
\* addresses of the client's heap
MaxLocal == 3
\* the largest handle value the server's answers carry in SpecClient
MaxRemote == 2
\* HEADER_SIZE, sizeof(block_header_t) (24 in the source), scaled to WordMod
HEADER_SIZE == 3
\* the values of the uint32_t size field of a message header (2^32 in the
\* source), scaled between ETHER_MAX_PAYLOAD and WordMod
SizeFieldMod == 8

(***************************************************************************)
(* Program constants.                                                      *)
(***************************************************************************)
BLOCK_MAGIC == "0xF9A9582B"
BLOCK_FREED == "0x8FD76019"
\* a header word that is neither tag (memory never written by the allocator)
GARBAGE == "garbage"
FLAG_ALLOCATED == 1

ETHER_OK == 0
ETHER_ERR_NOMEM == -1
ETHER_ERR_INVALID == -2
ETHER_ERR_CORRUPT == -3
ETHER_ERR_OVERFLOW == -4
ETHER_ERR_NETWORK == -5
ETHER_ERR_NOTFOUND == -7

ETHER_MAGIC == "0xE7E7E7E7"
BAD_MAGIC == "0x00000000"
ETHER_PROTOCOL_VER == 1
ETHER_HEADER_SIZE == 24
ETHER_CMD_PING == 1
ETHER_CMD_PONG == 2
ETHER_CMD_ALLOC == 16
ETHER_CMD_FREE == 17
ETHER_CMD_REALLOC == 18
ETHER_CMD_WRITE == 32
ETHER_CMD_READ == 33
ETHER_CMD_OK == 240
ETHER_CMD_ERROR == 255

NULL == 0
Addrs == 1..MaxAddr
Byte == 0..MaxByte

VARIABLES
    blocks,         \* the C heap: chunk address -> block_header_t + data area
    g_stats,        \* ether_stats_t g_stats
    g_handles,      \* handle_entry_t g_handles[]
    g_next_handle,  \* uint64_t g_next_handle
    pc,             \* where the daemon stands: "accept", "header", "payload",
                    \* "eof"
    conn,           \* number of the connection being served (0: none yet)
    cur,            \* the validated header whose payload is awaited
    req,            \* the last header received on the open connection, the
                    \* payload handed to handle_write with it, and its fate
    resp,           \* the messages send_response wrote for it
    nreq,           \* headers received so far
    owner,          \* history: handle -> connection whose ALLOC returned it
    freed,          \* history: handles whose FREE was answered OK
    obs,            \* history: what the last dispatch found and what it changed
    last,           \* SpecAlloc: the last call of the local program
    ncalls,         \* SpecAlloc: calls made so far
    proto,          \* SpecProtocol: the arguments and results of the last
                    \* call of a protocol function
    g_cache,        \* client: handle_cache_entry_t g_cache[]
    lheap,          \* client: the C heap of the client process: address ->
                    \* state of the buffer ether_rmalloc got there, its bytes
    link            \* SpecRemote: the connection between the client library
                    \* and the daemon: the call that waits for its response
                    \* and the bytes in flight in both directions

vars == <<blocks, g_stats, g_handles, g_next_handle, pc, conn, cur, req, resp,
          nreq, owner, freed, obs, last, ncalls, proto, g_cache, lheap, link>>
allocVars == <<blocks, g_stats>>
clientVars == <<g_cache, lheap, link>>
serverVars == <<g_handles, g_next_handle, pc, conn, cur, req, resp, nreq,
                owner, freed, obs>>

(***************************************************************************)
(* Helpers on byte sequences and machine words.                            *)
(***************************************************************************)
Min(a, b) == IF a < b THEN a ELSE b

Zeros(n) == [i \in 1..n |-> 0]

\* size_t addition and subtraction
WAdd(a, b) == (a + b) % WordMod
WSub(a, b) == (a - b + WordMod) % WordMod

\* memset(p + from, 0, n) on a data area
Memset0(data, from, n) ==
    [i \in 1..Len(data) |-> IF i > from /\ i <= from + n THEN 0 ELSE data[i]]

\* memcpy(p, src, n) on a data area
Memcpy(data, src, n) ==
    [i \in 1..Len(data) |-> IF i <= n THEN src[i] ELSE data[i]]

\* all byte strings of length 0..n
RECURSIVE BytesOfLen(_)
BytesOfLen(n) ==
    IF n = 0 THEN {<<>>}
    ELSE {Append(s, b) : s \in BytesOfLen(n - 1), b \in Byte}

BytesUpTo(n) == UNION {BytesOfLen(k) : k \in 0..n}

\* the client before its first call: an empty cache, no buffer on its heap
CacheSlots == 1..MAX_HANDLES
LocalAddrs == 1..MaxLocal

NoBuffer == [state |-> "never", data |-> <<>>]

\* no call of the client library
NoRcall ==
    [op |-> "none", ptr |-> NULL, n |-> 0, data |-> <<>>, ret |-> 0,
     out |-> <<>>, sent |-> <<>>,
     net |-> [sent |-> FALSE, recv |-> FALSE, command |-> 0, handle |-> 0,
              payload |-> <<>>]]

\* a connection with no call waiting and nothing in flight: call is the call
\* that waits in recv_response, out the requests the daemon has not read,
\* junk whether bytes that are no message precede them, starved whether the
\* daemon waits for payload bytes that were never sent, back the responses
\* the client has not read, stray the payload bytes of a response that
\* recv_response left unread
NoLink ==
    [call |-> NoRcall, out |-> <<>>, junk |-> FALSE, starved |-> FALSE,
     back |-> <<>>, stray |-> 0]

ClientIdle ==
    /\ g_cache = [i \in CacheSlots |->
                    [local_ptr |-> NULL, remote_handle |-> 0, size |-> 0,
                     valid |-> FALSE]]
    /\ lheap = [a \in LocalAddrs |-> NoBuffer]
    /\ link = NoLink

(***************************************************************************)
(* The wire format of a header.  A byte of the model takes the values      *)
(* 0..MaxByte, so a field of w bytes takes the values 0..ByteBase^w - 1;   *)
(* a header is a record of the seven field values, a buffer a sequence of  *)
(* bytes, buffer[i + 1] being the C buffer[i].                             *)
(***************************************************************************)
ByteBase == MaxByte + 1

RECURSIVE Pow(_, _)
Pow(b, n) == IF n = 0 THEN 1 ELSE b * Pow(b, n - 1)

\* (x >> (8 * k)) & 0xFF
ShrByte(x, k) == (x \div Pow(ByteBase, k)) % ByteBase

\* (uint) b << (8 * k)
ShlByte(b, k) == b * Pow(ByteBase, k)

\* htonl(x) and ntohl(x): the four bytes of x reversed on a little-endian
\* host, x itself on a big-endian one
htonl(x, little_endian) ==
    IF little_endian
    THEN ShlByte(ShrByte(x, 0), 3) + ShlByte(ShrByte(x, 1), 2)
         + ShlByte(ShrByte(x, 2), 1) + ShlByte(ShrByte(x, 3), 0)
    ELSE x

ntohl(x, little_endian) == htonl(x, little_endian)

\* *(uint32_t *)(buffer + off) = word, in the byte order of the host
Store32(buffer, off, word, little_endian) ==
    [i \in 1..Len(buffer) |->
       IF i > off /\ i <= off + 4
       THEN IF little_endian THEN ShrByte(word, i - off - 1)
                             ELSE ShrByte(word, 3 - (i - off - 1))
       ELSE buffer[i]]

\* *(const uint32_t *)(buffer + off), in the byte order of the host
Load32(buffer, off, little_endian) ==
    IF little_endian
    THEN ShlByte(buffer[off + 1], 0) + ShlByte(buffer[off + 2], 1)
         + ShlByte(buffer[off + 3], 2) + ShlByte(buffer[off + 4], 3)
    ELSE ShlByte(buffer[off + 1], 3) + ShlByte(buffer[off + 2], 2)
         + ShlByte(buffer[off + 3], 1) + ShlByte(buffer[off + 4], 0)

\* buffer with the bytes at offsets from.. replaced by those of bytes
StoreBytes(buffer, from, bytes) ==
    [i \in 1..Len(buffer) |->
       IF i > from /\ i <= from + Len(bytes) THEN bytes[i - from]
       ELSE buffer[i]]

\* ether_msg_serialize_header with two bytes of flags in the order of a
\* little-endian host
ether_msg_serialize_header_le_flags(header_null, header, buffer_null, buffer, le) ==
    IF header_null \/ buffer_null THEN buffer
    ELSE
      LET b0 == Store32(buffer, 0, htonl(header.magic, le),
                        le)
          b4 == StoreBytes(b0, 4,
                  << header.version % ByteBase, header.command % ByteBase,
                     ShrByte(header.flags, 0), ShrByte(header.flags, 1) >>)
          handle == header.handle
          b8 == StoreBytes(b4, 8,
                  << ShrByte(handle, 7), ShrByte(handle, 6),
                     ShrByte(handle, 5), ShrByte(handle, 4),
                     ShrByte(handle, 3), ShrByte(handle, 2),
                     ShrByte(handle, 1), ShrByte(handle, 0) >>)
          b16 == Store32(b8, 16, htonl(header.size, le),
                         le)
      IN Store32(b16, 20, htonl(header.reserved, le),
                 le)

\* ether_msg_serialize_header(header, buffer): the buffer it leaves
ether_msg_serialize_header(header_null, header, buffer_null, buffer, le) ==
    IF header_null \/ buffer_null THEN buffer
    ELSE
      LET b0 == Store32(buffer, 0, htonl(header.magic, le),
                        le)
          b4 == StoreBytes(b0, 4,
                  << header.version % ByteBase, header.command % ByteBase,
                     ShrByte(header.flags, 1), ShrByte(header.flags, 0) >>)
          handle == header.handle
          b8 == StoreBytes(b4, 8,
                  << ShrByte(handle, 7), ShrByte(handle, 6),
                     ShrByte(handle, 5), ShrByte(handle, 4),
                     ShrByte(handle, 3), ShrByte(handle, 2),
                     ShrByte(handle, 1), ShrByte(handle, 0) >>)
          b16 == Store32(b8, 16, htonl(header.size, le),
                         le)
      IN Store32(b16, 20, htonl(header.reserved, le),
                 le)

\* ether_msg_deserialize_header(buffer, header): the header it leaves
ether_msg_deserialize_header(buffer_null, buffer, header_null, header, le) ==
    IF buffer_null \/ header_null THEN header
    ELSE
      [magic |-> ntohl(Load32(buffer, 0, le), le),
       version |-> buffer[5],
       command |-> buffer[6],
       flags |-> ShlByte(buffer[7], 1) + buffer[8],
       handle |-> ShlByte(buffer[9], 7) + ShlByte(buffer[10], 6)
                  + ShlByte(buffer[11], 5) + ShlByte(buffer[12], 4)
                  + ShlByte(buffer[13], 3) + ShlByte(buffer[14], 2)
                  + ShlByte(buffer[15], 1) + buffer[16],
       size |-> ntohl(Load32(buffer, 16, le), le),
       reserved |-> ntohl(Load32(buffer, 20, le), le)]

\* the fields of ether_msg_header_t: name, offset and width in bytes
HeaderFields ==
    { <<"magic", 0, 4>>, <<"version", 4, 1>>, <<"command", 5, 1>>,
      <<"flags", 6, 2>>, <<"handle", 8, 8>>, <<"size", 16, 4>>,
      <<"reserved", 20, 4>> }

\* no protocol function has been called
NoProto == [op |-> "none"]

(***************************************************************************)
(* The allocator.  A memory value m is [blocks, stats]; every function     *)
(* returns the memory it leaves.                                           *)
(***************************************************************************)
Mem == [blocks |-> blocks, stats |-> g_stats]

\* a chunk the C heap has never handed to the allocator
FreshChunk ==
    [held |-> FALSE, magic |-> GARBAGE, flags |-> 0, size |-> 0,
     capacity |-> 0, data |-> <<>>]

ZeroStats ==
    [total_allocated |-> 0, total_freed |-> 0, current_usage |-> 0,
     peak_usage |-> 0, num_allocs |-> 0, num_frees |-> 0]

\* what malloc may return: NULL, or any chunk that is not in use; chunks never
\* handed out before are alike, so the lowest stands for them all
MallocOutcomes(m) ==
    LET reusable == {a \in Addrs : ~m.blocks[a].held /\ m.blocks[a].magic # GARBAGE}
        untouched == {a \in Addrs : ~m.blocks[a].held /\ m.blocks[a].magic = GARBAGE}
    IN {NULL} \cup reusable
              \cup {a \in untouched : \A b \in untouched : a <= b}

is_valid_block(header) ==
    /\ header.magic = BLOCK_MAGIC
    /\ header.flags % 2 = FLAG_ALLOCATED

\* ether_alloc that counts the call before it looks at size
ether_alloc_counts_attempt(m, size, chunk) ==
    LET counted == [m EXCEPT !.stats.num_allocs = WAdd(@, 1)]
    IN IF size = 0 THEN [ret |-> NULL, m |-> counted]
       ELSE IF chunk = NULL THEN [ret |-> NULL, m |-> m]
       ELSE
         LET header == [held |-> TRUE, magic |-> BLOCK_MAGIC,
                        flags |-> FLAG_ALLOCATED, size |-> size,
                        capacity |-> size, data |-> Zeros(size)]
             usage == WAdd(m.stats.current_usage, size)
             st == [m.stats EXCEPT
                      !.total_allocated = WAdd(@, size),
                      !.current_usage = usage,
                      !.num_allocs = WAdd(@, 1),
                      !.peak_usage = IF usage > @ THEN usage ELSE @]
         IN [ret |-> chunk,
             m |-> [blocks |-> [m.blocks EXCEPT ![chunk] = header],
                    stats |-> st]]

\* ether_alloc without the memset, on a chunk whose bytes are not zero
ether_alloc_dirty(m, size, chunk) ==
    IF size = 0 THEN [ret |-> NULL, m |-> m]
    ELSE IF chunk = NULL THEN [ret |-> NULL, m |-> m]
    ELSE
      LET header == [held |-> TRUE, magic |-> BLOCK_MAGIC,
                     flags |-> FLAG_ALLOCATED, size |-> size,
                     capacity |-> size,
                     data |-> [i \in 1..size |-> MaxByte]]
          usage == WAdd(m.stats.current_usage, size)
          st == [m.stats EXCEPT
                   !.total_allocated = WAdd(@, size),
                   !.current_usage = usage,
                   !.num_allocs = WAdd(@, 1),
                   !.peak_usage = IF usage > @ THEN usage ELSE @]
      IN [ret |-> chunk,
          m |-> [blocks |-> [m.blocks EXCEPT ![chunk] = header], stats |-> st]]

\* ether_alloc(size), with chunk the value malloc returned
ether_alloc(m, size, chunk) ==
    IF size = 0 THEN [ret |-> NULL, m |-> m]
    ELSE IF chunk = NULL THEN [ret |-> NULL, m |-> m]
    ELSE
      LET header == [held |-> TRUE, magic |-> BLOCK_MAGIC,
                     flags |-> FLAG_ALLOCATED, size |-> size,
                     capacity |-> size, data |-> Zeros(size)]
          usage == WAdd(m.stats.current_usage, size)
          st == [m.stats EXCEPT
                   !.total_allocated = WAdd(@, size),
                   !.current_usage = usage,
                   !.num_allocs = WAdd(@, 1),
                   !.peak_usage = IF usage > @ THEN usage ELSE @]
      IN [ret |-> chunk,
          m |-> [blocks |-> [m.blocks EXCEPT ![chunk] = header], stats |-> st]]

\* ether_free without the validation of the header
ether_free_unchecked(m, ptr) ==
    IF ptr = NULL THEN [m |-> m, report |-> "none"]
    ELSE
      LET header == m.blocks[ptr]
          size == header.size
          wiped == [header EXCEPT
                      !.data = Memset0(@, 0, size),
                      !.magic = BLOCK_FREED,
                      !.flags = 0,
                      !.held = FALSE]
          st == [m.stats EXCEPT
                   !.total_freed = WAdd(@, size),
                   !.current_usage = WSub(@, size),
                   !.num_frees = WAdd(@, 1)]
      IN [m |-> [blocks |-> [m.blocks EXCEPT ![ptr] = wiped], stats |-> st],
          report |-> "none"]

\* ether_free without the current_usage update
ether_free_keeps_usage(m, ptr) ==
    IF ptr = NULL THEN [m |-> m, report |-> "none"]
    ELSE IF ~is_valid_block(m.blocks[ptr])
      THEN [m |-> m, report |-> "invalid free"]
    ELSE
      LET header == m.blocks[ptr]
          size == header.size
          wiped == [header EXCEPT
                      !.data = Memset0(@, 0, size),
                      !.magic = BLOCK_FREED,
                      !.flags = 0,
                      !.held = FALSE]
          st == [m.stats EXCEPT
                   !.total_freed = WAdd(@, size),
                   !.num_frees = WAdd(@, 1)]
      IN [m |-> [blocks |-> [m.blocks EXCEPT ![ptr] = wiped], stats |-> st],
          report |-> "none"]

\* ether_free that refuses a block larger than current_usage
ether_free_guarded(m, ptr) ==
    IF ptr = NULL THEN [m |-> m, report |-> "none"]
    ELSE IF ~is_valid_block(m.blocks[ptr])
      THEN [m |-> m, report |-> "invalid free"]
    ELSE IF m.blocks[ptr].size > m.stats.current_usage
      THEN [m |-> m, report |-> "invalid free"]
    ELSE
      LET header == m.blocks[ptr]
          size == header.size
          wiped == [header EXCEPT
                      !.data = Memset0(@, 0, size),
                      !.magic = BLOCK_FREED,
                      !.flags = 0,
                      !.held = FALSE]
          st == [m.stats EXCEPT
                   !.total_freed = WAdd(@, size),
                   !.current_usage = WSub(@, size),
                   !.num_frees = WAdd(@, 1)]
      IN [m |-> [blocks |-> [m.blocks EXCEPT ![ptr] = wiped], stats |-> st],
          report |-> "none"]

\* ether_free that leaves the tag and the flags of the released block
ether_free_keeps_tag(m, ptr) ==
    IF ptr = NULL THEN [m |-> m, report |-> "none"]
    ELSE IF ~is_valid_block(m.blocks[ptr])
      THEN [m |-> m, report |-> "invalid free"]
    ELSE
      LET header == m.blocks[ptr]
          size == header.size
          wiped == [header EXCEPT
                      !.data = Memset0(@, 0, size),
                      !.held = FALSE]
          st == [m.stats EXCEPT
                   !.total_freed = WAdd(@, size),
                   !.current_usage = WSub(@, size),
                   !.num_frees = WAdd(@, 1)]
      IN [m |-> [blocks |-> [m.blocks EXCEPT ![ptr] = wiped], stats |-> st],
          report |-> "none"]

\* ether_free(ptr); report is what it prints on stderr
ether_free(m, ptr) ==
    IF ptr = NULL THEN [m |-> m, report |-> "none"]
    ELSE IF ~is_valid_block(m.blocks[ptr])
      THEN [m |-> m, report |-> "invalid free"]
    ELSE IF m.blocks[ptr].magic = BLOCK_FREED
      THEN [m |-> m, report |-> "double free"]
    ELSE
      LET header == m.blocks[ptr]
          size == header.size
          wiped == [header EXCEPT
                      !.data = Memset0(@, 0, size),
                      !.magic = BLOCK_FREED,
                      !.flags = 0,
                      !.held = FALSE]
          st == [m.stats EXCEPT
                   !.total_freed = WAdd(@, size),
                   !.current_usage = WSub(@, size),
                   !.num_frees = WAdd(@, 1)]
      IN [m |-> [blocks |-> [m.blocks EXCEPT ![ptr] = wiped], stats |-> st],
          report |-> "none"]

\* ether_realloc that only returns NULL when new_size is 0
ether_realloc_zero_keeps(m, ptr, new_size, chunk) ==
    IF ptr = NULL THEN ether_alloc(m, new_size, chunk)
    ELSE IF new_size = 0 THEN [ret |-> NULL, m |-> m]
    ELSE IF ~is_valid_block(m.blocks[ptr]) THEN [ret |-> NULL, m |-> m]
    ELSE
      LET old_header == m.blocks[ptr]
          old_size == old_header.size
      IN IF new_size <= old_header.capacity
         THEN [ret |-> ptr,
               m |-> [m EXCEPT !.blocks[ptr] =
                        [old_header EXCEPT
                           !.size = new_size,
                           !.data = IF new_size > old_size
                                    THEN Memset0(@, old_size, new_size - old_size)
                                    ELSE @]]]
         ELSE
           LET a == ether_alloc(m, new_size, chunk)
           IN IF a.ret = NULL THEN [ret |-> NULL, m |-> m]
              ELSE
                LET copy_size == Min(old_size, new_size)
                    copied == [a.m EXCEPT !.blocks[a.ret].data =
                                 Memcpy(@, old_header.data, copy_size)]
                IN [ret |-> a.ret, m |-> ether_free(copied, ptr).m]

\* ether_realloc that releases the old block when the new allocation fails
ether_realloc_drops(m, ptr, new_size, chunk) ==
    IF ptr = NULL THEN ether_alloc(m, new_size, chunk)
    ELSE IF new_size = 0 THEN [ret |-> NULL, m |-> ether_free(m, ptr).m]
    ELSE IF ~is_valid_block(m.blocks[ptr]) THEN [ret |-> NULL, m |-> m]
    ELSE
      LET old_header == m.blocks[ptr]
          old_size == old_header.size
      IN IF new_size <= old_header.capacity
         THEN [ret |-> ptr,
               m |-> [m EXCEPT !.blocks[ptr] =
                        [old_header EXCEPT
                           !.size = new_size,
                           !.data = IF new_size > old_size
                                    THEN Memset0(@, old_size, new_size - old_size)
                                    ELSE @]]]
         ELSE
           LET a == ether_alloc(m, new_size, chunk)
           IN IF a.ret = NULL THEN [ret |-> NULL, m |-> ether_free(m, ptr).m]
              ELSE
                LET copy_size == Min(old_size, new_size)
                    copied == [a.m EXCEPT !.blocks[a.ret].data =
                                 Memcpy(@, old_header.data, copy_size)]
                IN [ret |-> a.ret, m |-> ether_free(copied, ptr).m]

\* ether_realloc whose in-place branch does not zero the bytes it exposes
ether_realloc_exposes(m, ptr, new_size, chunk) ==
    IF ptr = NULL THEN ether_alloc(m, new_size, chunk)
    ELSE IF new_size = 0 THEN [ret |-> NULL, m |-> ether_free(m, ptr).m]
    ELSE IF ~is_valid_block(m.blocks[ptr]) THEN [ret |-> NULL, m |-> m]
    ELSE
      LET old_header == m.blocks[ptr]
          old_size == old_header.size
      IN IF new_size <= old_header.capacity
         THEN [ret |-> ptr, m |-> [m EXCEPT !.blocks[ptr].size = new_size]]
         ELSE
           LET a == ether_alloc(m, new_size, chunk)
           IN IF a.ret = NULL THEN [ret |-> NULL, m |-> m]
              ELSE
                LET copy_size == Min(old_size, new_size)
                    copied == [a.m EXCEPT !.blocks[a.ret].data =
                                 Memcpy(@, old_header.data, copy_size)]
                IN [ret |-> a.ret, m |-> ether_free(copied, ptr).m]

\* ether_realloc(ptr, new_size), with chunk the value malloc would return
ether_realloc(m, ptr, new_size, chunk) ==
    IF ptr = NULL THEN ether_alloc(m, new_size, chunk)
    ELSE IF new_size = 0 THEN [ret |-> NULL, m |-> ether_free(m, ptr).m]
    ELSE IF ~is_valid_block(m.blocks[ptr]) THEN [ret |-> NULL, m |-> m]
    ELSE
      LET old_header == m.blocks[ptr]
          old_size == old_header.size
      IN IF new_size <= old_header.capacity
         THEN [ret |-> ptr,
               m |-> [m EXCEPT !.blocks[ptr] =
                        [old_header EXCEPT
                           !.size = new_size,
                           !.data = IF new_size > old_size
                                    THEN Memset0(@, old_size, new_size - old_size)
                                    ELSE @]]]
         ELSE
           LET a == ether_alloc(m, new_size, chunk)
           IN IF a.ret = NULL THEN [ret |-> NULL, m |-> m]
              ELSE
                LET copy_size == Min(old_size, new_size)
                    copied == [a.m EXCEPT !.blocks[a.ret].data =
                                 Memcpy(@, old_header.data, copy_size)]
                IN [ret |-> a.ret, m |-> ether_free(copied, ptr).m]

\* ether_write with the copy one byte short
ether_write_offby1(m, ptr, data_null, data, len) ==
    IF ptr = NULL \/ data_null THEN [ret |-> ETHER_ERR_INVALID, m |-> m]
    ELSE IF ~is_valid_block(m.blocks[ptr])
      THEN [ret |-> ETHER_ERR_CORRUPT, m |-> m]
    ELSE IF len > m.blocks[ptr].size
      THEN [ret |-> ETHER_ERR_OVERFLOW, m |-> m]
    ELSE [ret |-> ETHER_OK,
          m |-> [m EXCEPT !.blocks[ptr].data =
                   Memcpy(@, data, IF len = 0 THEN 0 ELSE len - 1)]]

\* ether_write with the bounds check against capacity instead of size
ether_write_capacity(m, ptr, data_null, data, len) ==
    IF ptr = NULL \/ data_null THEN [ret |-> ETHER_ERR_INVALID, m |-> m]
    ELSE IF ~is_valid_block(m.blocks[ptr])
      THEN [ret |-> ETHER_ERR_CORRUPT, m |-> m]
    ELSE IF len > m.blocks[ptr].capacity
      THEN [ret |-> ETHER_ERR_OVERFLOW, m |-> m]
    ELSE [ret |-> ETHER_OK,
          m |-> [m EXCEPT !.blocks[ptr].data = Memcpy(@, data, len)]]

\* ether_write(ptr, data, len); data_null says the data pointer is NULL
ether_write(m, ptr, data_null, data, len) ==
    IF ptr = NULL \/ data_null THEN [ret |-> ETHER_ERR_INVALID, m |-> m]
    ELSE IF ~is_valid_block(m.blocks[ptr])
      THEN [ret |-> ETHER_ERR_CORRUPT, m |-> m]
    ELSE IF len > m.blocks[ptr].size
      THEN [ret |-> ETHER_ERR_OVERFLOW, m |-> m]
    ELSE [ret |-> ETHER_OK,
          m |-> [m EXCEPT !.blocks[ptr].data = Memcpy(@, data, len)]]

\* ether_read(ptr, buffer, len); out is what the buffer's first len bytes hold
ether_read(m, ptr, buffer_null, len) ==
    IF ptr = NULL \/ buffer_null THEN [ret |-> ETHER_ERR_INVALID, out |-> <<>>]
    ELSE IF ~is_valid_block(m.blocks[ptr])
      THEN [ret |-> ETHER_ERR_CORRUPT, out |-> <<>>]
    ELSE IF len > m.blocks[ptr].size
      THEN [ret |-> ETHER_ERR_OVERFLOW, out |-> <<>>]
    ELSE [ret |-> ETHER_OK, out |-> SubSeq(m.blocks[ptr].data, 1, len)]

ether_size(m, ptr) ==
    IF ptr = NULL THEN 0
    ELSE IF ~is_valid_block(m.blocks[ptr]) THEN 0
    ELSE m.blocks[ptr].size

ether_reset_stats(m) == [m EXCEPT !.stats = ZeroStats]


(***************************************************************************)
(* SpecAlloc: a local program driving the allocator API.                   *)
(***************************************************************************)
\* the last call: its arguments (ptr, n, data), its results (ret, out, report),
\* and what it found: the block behind ptr, or for alloc what the chunk
\* malloc returned held (pre), and current_usage (usage)
NoCall ==
    [op |-> "none", ptr |-> NULL, n |-> 0, data |-> <<>>, ret |-> 0,
     out |-> <<>>, report |-> "none", pre |-> FreshChunk, usage |-> 0]

Call(op, ptr, n) ==
    [NoCall EXCEPT !.op = op, !.ptr = ptr, !.n = n,
                   !.pre = IF ptr = NULL THEN FreshChunk ELSE blocks[ptr],
                   !.usage = g_stats.current_usage]

\* pointers the program can pass: NULL and every pointer ether_alloc returned
KnownPtrs == {NULL} \cup {a \in Addrs : blocks[a].magic # GARBAGE}

InitAlloc ==
    /\ blocks = [a \in Addrs |-> FreshChunk]
    /\ g_stats = ZeroStats
    /\ last = NoCall
    /\ ncalls = 0
    /\ proto = NoProto
    /\ ClientIdle
    /\ g_handles = [i \in 1..HANDLE_SLOTS |->
                      [handle |-> 0, ptr |-> NULL, size |-> 0, in_use |-> FALSE]]
    /\ g_next_handle = 1
    /\ pc = "accept"
    /\ conn = 0
    /\ cur = [magic |-> "0x00000000", version |-> 0, command |-> 0,
              handle |-> 0, size |-> 0]
    /\ req = [header |-> cur, payload |-> <<>>, conn |-> 0, fate |-> "none",
              header_read |-> 0, payload_read |-> 0]
    /\ resp = <<>>
    /\ nreq = 0
    /\ owner = {}
    /\ freed = {}
    /\ obs = [live |-> FALSE, stale |-> FALSE, foreign |-> FALSE, size |-> 0,
              data |-> <<>>, blocks_same |-> TRUE, stats_same |-> TRUE,
              tab_same |-> TRUE, next |-> 1, issued_max |-> 0]

Returned(m, call) ==
    /\ ncalls < MaxCalls
    /\ ncalls' = ncalls + 1
    /\ blocks' = m.blocks
    /\ g_stats' = m.stats
    /\ last' = call
    /\ UNCHANGED <<serverVars, proto, clientVars>>

\* whether ether_realloc(ptr, new_size) reaches a malloc call
ReallocCallsMalloc(m, ptr, new_size) ==
    /\ new_size # 0
    /\ \/ ptr = NULL
       \/ /\ is_valid_block(m.blocks[ptr])
          /\ new_size > m.blocks[ptr].capacity

CallAlloc ==
    \E size \in 0..MaxSize :
      \E chunk \in IF size = 0 THEN {NULL} ELSE MallocOutcomes(Mem) :
      LET r == ether_alloc(Mem, size, chunk)
      IN Returned(r.m, [Call("alloc", NULL, size) EXCEPT
                          !.ret = r.ret,
                          !.pre = IF chunk = NULL THEN FreshChunk
                                  ELSE blocks[chunk]])

CallFree ==
    \E ptr \in KnownPtrs :
      LET r == ether_free(Mem, ptr)
      IN Returned(r.m, [Call("free", ptr, 0) EXCEPT !.report = r.report])

CallRealloc ==
    \E ptr \in KnownPtrs, new_size \in 0..MaxSize :
      \E chunk \in IF ReallocCallsMalloc(Mem, ptr, new_size)
                    THEN MallocOutcomes(Mem) ELSE {NULL} :
      LET r == ether_realloc(Mem, ptr, new_size, chunk)
      IN Returned(r.m, [Call("realloc", ptr, new_size) EXCEPT !.ret = r.ret])

CallWrite ==
    \E ptr \in KnownPtrs, D \in BytesUpTo(MaxSize + 1) :
      LET len == Len(D)
          r == ether_write(Mem, ptr, FALSE, D, len)
      IN Returned(r.m, [Call("write", ptr, len) EXCEPT !.data = D, !.ret = r.ret])

CallWriteNull ==
    \E ptr \in KnownPtrs, len \in 0..MaxSize :
      LET r == ether_write(Mem, ptr, TRUE, <<>>, len)
      IN Returned(r.m, [Call("write_null", ptr, len) EXCEPT !.ret = r.ret])

CallRead ==
    \E ptr \in KnownPtrs, len \in 0..(MaxSize + 1), buffer_null \in BOOLEAN :
      LET r == ether_read(Mem, ptr, buffer_null, len)
      IN Returned(Mem, [Call(IF buffer_null THEN "read_null" ELSE "read", ptr, len)
                       EXCEPT !.ret = r.ret, !.out = r.out])

CallSize ==
    \E ptr \in KnownPtrs :
      Returned(Mem, [Call("size", ptr, 0) EXCEPT !.ret = ether_size(Mem, ptr)])

CallResetStats ==
    Returned(ether_reset_stats(Mem), Call("reset_stats", NULL, 0))

NextAlloc ==
    \/ CallAlloc
    \/ CallFree
    \/ CallRealloc
    \/ CallWrite
    \/ CallWriteNull
    \/ CallRead
    \/ CallSize
    \/ CallResetStats

SpecAlloc == InitAlloc /\ [][NextAlloc]_vars

\* the local program when it never calls ether_reset_stats and only
\* allocates, releases and resizes
NextUsage ==
    \/ CallAlloc
    \/ CallFree
    \/ CallRealloc

SpecUsage == InitAlloc /\ [][NextUsage]_vars


(***************************************************************************)
(* SpecWord: ether_alloc called with any size of the machine word.  The    *)
(* function asks malloc for total = HEADER_SIZE + size bytes, computed in  *)
(* size_t, writes the header at the start of the chunk and zeroes size     *)
(* bytes behind it.                                                        *)
(***************************************************************************)
Words == 0..(WordMod - 1)

\* size_t total = HEADER_SIZE + size
alloc_total(size) == WAdd(HEADER_SIZE, size)

\* the last byte ether_alloc(size) writes, counted from the start of the chunk
alloc_written(size) == HEADER_SIZE + size

\* the call wrote beyond what malloc reserved: from there on the behaviour of
\* the process is undefined, and the model follows it no further
Overrun == proto.op = "ether_alloc" /\ proto.written > proto.total /\ proto.ret # NULL

CallAllocWord ==
    /\ ~Overrun
    /\ ncalls < MaxCalls
    /\ \E size \in Words :
        \E chunk \in IF size = 0 THEN {NULL} ELSE MallocOutcomes(Mem) :
          LET total == alloc_total(size)
              r == ether_alloc(Mem, size, chunk)
              fits == alloc_written(size) <= total
          IN /\ proto' = [op |-> "ether_alloc", size |-> size, total |-> total,
                          written |-> IF r.ret = NULL THEN 0
                                      ELSE alloc_written(size),
                          ret |-> r.ret]
             /\ blocks' = IF fits THEN r.m.blocks ELSE blocks
             /\ g_stats' = IF fits THEN r.m.stats ELSE g_stats
             /\ last' = [Call("alloc", NULL, size) EXCEPT !.ret = r.ret]
             /\ ncalls' = ncalls + 1
             /\ UNCHANGED <<serverVars, clientVars>>

CallFreeWord ==
    /\ ~Overrun
    /\ CallFree

NextWord ==
    \/ CallAllocWord
    \/ CallFreeWord

SpecWord == InitAlloc /\ [][NextWord]_vars


(***************************************************************************)
(* The daemon's handle table.                                              *)
(***************************************************************************)
Slots == 1..HANDLE_SLOTS

\* the lowest index the scanning loops stop at
FirstSlot(S) == CHOOSE i \in S : \A j \in S : i <= j

FreeSlots(tab) == {i \in Slots : ~tab[i].in_use}

MatchingSlots(tab, handle) ==
    {i \in Slots : tab[i].in_use /\ tab[i].handle = handle}

\* store_handle that takes the next handle value before it looks for a slot
store_handle_burns(tab, next, ptr, size) ==
    IF FreeSlots(tab) = {} THEN [ret |-> 0, tab |-> tab, next |-> next + 1]
    ELSE LET i == FirstSlot(FreeSlots(tab))
         IN [ret |-> next,
             tab |-> [tab EXCEPT ![i] = [handle |-> next, ptr |-> ptr,
                                         size |-> size, in_use |-> TRUE]],
             next |-> next + 1]

\* store_handle(ptr, size) on table tab with counter next
store_handle(tab, next, ptr, size) ==
    IF FreeSlots(tab) = {} THEN [ret |-> 0, tab |-> tab, next |-> next]
    ELSE LET i == FirstSlot(FreeSlots(tab))
         IN [ret |-> next,
             tab |-> [tab EXCEPT ![i] = [handle |-> next, ptr |-> ptr,
                                         size |-> size, in_use |-> TRUE]],
             next |-> next + 1]

\* lookup_handle(handle, &size)
lookup_handle(tab, handle) ==
    IF MatchingSlots(tab, handle) = {} THEN [ptr |-> NULL, size |-> 0]
    ELSE LET i == FirstSlot(MatchingSlots(tab, handle))
         IN [ptr |-> tab[i].ptr, size |-> tab[i].size]

\* remove_handle that forgets the size but leaves the entry in use
remove_handle_keeps_entry(tab, handle) ==
    IF MatchingSlots(tab, handle) = {} THEN tab
    ELSE LET i == FirstSlot(MatchingSlots(tab, handle))
         IN [tab EXCEPT ![i].size = 0]

\* remove_handle(handle)
remove_handle(tab, handle) ==
    IF MatchingSlots(tab, handle) = {} THEN tab
    ELSE LET i == FirstSlot(MatchingSlots(tab, handle))
         IN [tab EXCEPT ![i].in_use = FALSE, ![i].ptr = NULL]

(***************************************************************************)
(* Messages.                                                               *)
(***************************************************************************)
\* ether_msg_validate that also rejects a payload of the maximum size
ether_msg_validate_below_max(header_null, header) ==
    /\ ~header_null
    /\ header.magic = ETHER_MAGIC
    /\ header.version = ETHER_PROTOCOL_VER
    /\ header.size < ETHER_MAX_PAYLOAD

\* ether_msg_validate(header); header_null says the pointer is NULL
ether_msg_validate(header_null, header) ==
    /\ ~header_null
    /\ header.magic = ETHER_MAGIC
    /\ header.version = ETHER_PROTOCOL_VER
    /\ header.size <= ETHER_MAX_PAYLOAD

\* send_response(fd, cmd, handle, data, data_len): the messages put on the wire
send_response(cmd, handle, data, data_len) ==
    IF data_len > ETHER_MAX_PAYLOAD THEN <<>>
    ELSE << [magic |-> ETHER_MAGIC, version |-> ETHER_PROTOCOL_VER,
             command |-> cmd, flags |-> 0, handle |-> handle,
             size |-> data_len, reserved |-> 0,
             payload |-> SubSeq(data, 1, data_len)] >>

(***************************************************************************)
(* The command handlers.  A server value s is [m, tab, next]; each handler *)
(* returns the server value it leaves and what it sent.                    *)
(***************************************************************************)
Server == [m |-> Mem, tab |-> g_handles, next |-> g_next_handle]

\* handle_ping answering the same request twice
handle_ping_twice(s) ==
    [s |-> s, sent |-> send_response(ETHER_CMD_PONG, 0, <<>>, 0)
                       \o send_response(ETHER_CMD_PONG, 0, <<>>, 0)]

\* handle_ping(fd): answer PONG
handle_ping(s) ==
    [s |-> s, sent |-> send_response(ETHER_CMD_PONG, 0, <<>>, 0)]

\* handle_client's default branch answering with the request's handle
handle_unknown_echoes(s, header) ==
    [s |-> s, sent |-> send_response(ETHER_CMD_ERROR, header.handle, <<>>, 0)]

\* handle_client, default branch of the switch: unknown command
handle_unknown(s, header) ==
    [s |-> s, sent |-> send_response(ETHER_CMD_ERROR, 0, <<>>, 0)]

\* handle_alloc that keeps the block when the table is full
handle_alloc_leaks(s, header, chunk) ==
    LET size == header.size
        a == ether_alloc(s.m, size, chunk)
    IN IF a.ret = NULL
       THEN [s |-> s, sent |-> send_response(ETHER_CMD_ERROR, 0, <<>>, 0)]
       ELSE LET st == store_handle(s.tab, s.next, a.ret, size)
            IN IF st.ret = 0
               THEN [s |-> [m |-> a.m, tab |-> st.tab, next |-> st.next],
                     sent |-> send_response(ETHER_CMD_ERROR, 0, <<>>, 0)]
               ELSE [s |-> [m |-> a.m, tab |-> st.tab, next |-> st.next],
                     sent |-> send_response(ETHER_CMD_OK, st.ret, <<>>, 0)]

\* handle_alloc, with chunk the value malloc returns inside ether_alloc
handle_alloc(s, header, chunk) ==
    LET size == header.size
        a == ether_alloc(s.m, size, chunk)
    IN IF a.ret = NULL
       THEN [s |-> s, sent |-> send_response(ETHER_CMD_ERROR, 0, <<>>, 0)]
       ELSE LET st == store_handle(s.tab, s.next, a.ret, size)
            IN IF st.ret = 0
               THEN [s |-> [m |-> ether_free(a.m, a.ret).m, tab |-> st.tab,
                            next |-> st.next],
                     sent |-> send_response(ETHER_CMD_ERROR, 0, <<>>, 0)]
               ELSE [s |-> [m |-> a.m, tab |-> st.tab, next |-> st.next],
                     sent |-> send_response(ETHER_CMD_OK, st.ret, <<>>, 0)]

\* handle_free without the check of the lookup's result
handle_free_unchecked(s, header) ==
    LET handle == header.handle
        ptr == lookup_handle(s.tab, handle).ptr
    IN [s |-> [s EXCEPT !.m = ether_free(s.m, ptr).m,
                        !.tab = remove_handle(s.tab, handle)],
        sent |-> send_response(ETHER_CMD_OK, handle, <<>>, 0)]

\* handle_free that releases the block and leaves its table entry
handle_free_release_only(s, header) ==
    LET handle == header.handle
        ptr == lookup_handle(s.tab, handle).ptr
    IN IF ptr = NULL
       THEN [s |-> s, sent |-> send_response(ETHER_CMD_ERROR, handle, <<>>, 0)]
       ELSE [s |-> [s EXCEPT !.m = ether_free(s.m, ptr).m],
             sent |-> send_response(ETHER_CMD_OK, handle, <<>>, 0)]

\* handle_free(fd, header): lookup, then ether_free, then remove_handle
handle_free(s, header) ==
    LET handle == header.handle
        ptr == lookup_handle(s.tab, handle).ptr
    IN IF ptr = NULL
       THEN [s |-> s, sent |-> send_response(ETHER_CMD_ERROR, handle, <<>>, 0)]
       ELSE [s |-> [s EXCEPT !.m = ether_free(s.m, ptr).m,
                             !.tab = remove_handle(s.tab, handle)],
             sent |-> send_response(ETHER_CMD_OK, handle, <<>>, 0)]

\* handle_write that caps an oversized write to the block instead of refusing
handle_write_truncating(s, header, payload_null, payload) ==
    LET handle == header.handle
        e == lookup_handle(s.tab, handle)
        len == IF header.size > e.size THEN e.size ELSE header.size
    IN IF e.ptr = NULL
       THEN [s |-> s, sent |-> send_response(ETHER_CMD_ERROR, handle, <<>>, 0)]
       ELSE LET w == ether_write(s.m, e.ptr, payload_null, payload, len)
            IN IF w.ret # ETHER_OK
               THEN [s |-> s,
                     sent |-> send_response(ETHER_CMD_ERROR, handle, <<>>, 0)]
               ELSE [s |-> [s EXCEPT !.m = w.m],
                     sent |-> send_response(ETHER_CMD_OK, handle, <<>>, 0)]

\* handle_write; payload_null says handle_client passed payload == NULL
handle_write(s, header, payload_null, payload) ==
    LET handle == header.handle
        len == header.size
        e == lookup_handle(s.tab, handle)
    IN IF e.ptr = NULL
       THEN [s |-> s, sent |-> send_response(ETHER_CMD_ERROR, handle, <<>>, 0)]
       ELSE IF len > e.size
       THEN [s |-> s, sent |-> send_response(ETHER_CMD_ERROR, handle, <<>>, 0)]
       ELSE LET w == ether_write(s.m, e.ptr, payload_null, payload, len)
            IN IF w.ret # ETHER_OK
               THEN [s |-> s,
                     sent |-> send_response(ETHER_CMD_ERROR, handle, <<>>, 0)]
               ELSE [s |-> [s EXCEPT !.m = w.m],
                     sent |-> send_response(ETHER_CMD_OK, handle, <<>>, 0)]

\* handle_read that answers a failed lookup without the request's handle
handle_read_anonymous_error(s, header) ==
    LET handle == header.handle
        e == lookup_handle(s.tab, handle)
    IN IF e.ptr = NULL
       THEN [s |-> s, sent |-> send_response(ETHER_CMD_ERROR, 0, <<>>, 0)]
       ELSE LET len == IF header.size > e.size THEN e.size ELSE header.size
                r == ether_read(s.m, e.ptr, FALSE, len)
            IN IF r.ret # ETHER_OK
               THEN [s |-> s,
                     sent |-> send_response(ETHER_CMD_ERROR, handle, <<>>, 0)]
               ELSE [s |-> s,
                     sent |-> send_response(ETHER_CMD_OK, handle, r.out, len)]

\* handle_read without the cap to the stored size
handle_read_uncapped(s, header) ==
    LET handle == header.handle
        e == lookup_handle(s.tab, handle)
    IN IF e.ptr = NULL
       THEN [s |-> s, sent |-> send_response(ETHER_CMD_ERROR, handle, <<>>, 0)]
       ELSE LET len == header.size
                r == ether_read(s.m, e.ptr, FALSE, len)
            IN IF r.ret # ETHER_OK
               THEN [s |-> s,
                     sent |-> send_response(ETHER_CMD_ERROR, handle, <<>>, 0)]
               ELSE [s |-> s,
                     sent |-> send_response(ETHER_CMD_OK, handle, r.out, len)]

\* handle_read; the scratch buffer malloc(len) is taken to succeed
handle_read(s, header) ==
    LET handle == header.handle
        e == lookup_handle(s.tab, handle)
    IN IF e.ptr = NULL
       THEN [s |-> s, sent |-> send_response(ETHER_CMD_ERROR, handle, <<>>, 0)]
       ELSE LET len == IF header.size > e.size THEN e.size ELSE header.size
                r == ether_read(s.m, e.ptr, FALSE, len)
            IN IF r.ret # ETHER_OK
               THEN [s |-> s,
                     sent |-> send_response(ETHER_CMD_ERROR, handle, <<>>, 0)]
               ELSE [s |-> s,
                     sent |-> send_response(ETHER_CMD_OK, handle, r.out, len)]

\* the switch of handle_client
dispatch(s, header, payload_null, payload, chunk) ==
    CASE header.command = ETHER_CMD_PING -> handle_ping(s)
      [] header.command = ETHER_CMD_ALLOC -> handle_alloc(s, header, chunk)
      [] header.command = ETHER_CMD_FREE -> handle_free(s, header)
      [] header.command = ETHER_CMD_WRITE ->
             handle_write(s, header, payload_null, payload)
      [] header.command = ETHER_CMD_READ -> handle_read(s, header)
      [] OTHER -> handle_unknown(s, header)

(***************************************************************************)
(* Spec: the accept loop and handle_client.                                *)
(***************************************************************************)
\* a command code the protocol does not assign
UNASSIGNED_CMD == 0

\* the command bytes a header may carry: those the switch of handle_client
\* names, and REALLOC, PONG, OK, ERROR and an unassigned code
Commands ==
    {ETHER_CMD_PING, ETHER_CMD_ALLOC, ETHER_CMD_FREE, ETHER_CMD_REALLOC,
     ETHER_CMD_WRITE, ETHER_CMD_READ, ETHER_CMD_PONG, ETHER_CMD_OK,
     ETHER_CMD_ERROR, UNASSIGNED_CMD}

\* handles a client may put in a request: 0, every value issued so far, and
\* the value the next store would issue
HandleArgs == 0..g_next_handle

\* the commands whose handler reads header.handle
HandleCommands == {ETHER_CMD_FREE, ETHER_CMD_WRITE, ETHER_CMD_READ}

\* the commands sent with and without a payload; the other unhandled codes
\* are sent without one
PayloadCommands ==
    {ETHER_CMD_PING, ETHER_CMD_ALLOC, ETHER_CMD_FREE, ETHER_CMD_REALLOC,
     ETHER_CMD_WRITE, ETHER_CMD_READ}

\* headers that pass validation; a REALLOC carries a handle like the
\* commands that read it, the handle field of the others is 0, as the client
\* library leaves it
ValidHeaders ==
    {h \in [magic : {ETHER_MAGIC}, version : {ETHER_PROTOCOL_VER},
            command : Commands, handle : HandleArgs,
            size : 0..ETHER_MAX_PAYLOAD] :
       /\ h.command \notin HandleCommands \cup {ETHER_CMD_REALLOC}
            => h.handle = 0
       /\ h.command \notin PayloadCommands => h.size = 0}

InvalidHeaders ==
    { [magic |-> BAD_MAGIC, version |-> ETHER_PROTOCOL_VER,
       command |-> ETHER_CMD_WRITE, handle |-> 1, size |-> 1],
      [magic |-> ETHER_MAGIC, version |-> ETHER_PROTOCOL_VER + 1,
       command |-> ETHER_CMD_FREE, handle |-> 1, size |-> 0],
      [magic |-> ETHER_MAGIC, version |-> ETHER_PROTOCOL_VER,
       command |-> ETHER_CMD_ALLOC, handle |-> 0,
       size |-> ETHER_MAX_PAYLOAD + 1] }

NoHeader ==
    [magic |-> BAD_MAGIC, version |-> 0, command |-> 0, handle |-> 0, size |-> 0]

NoObs ==
    [live |-> FALSE, stale |-> FALSE, foreign |-> FALSE, size |-> 0,
     data |-> <<>>, blocks_same |-> TRUE, stats_same |-> TRUE,
     tab_same |-> TRUE, next |-> 1, issued_max |-> 0]

\* the in-use entries of the table that carry handle
EntriesOf(handle) ==
    {i \in Slots : g_handles[i].in_use /\ g_handles[i].handle = handle}

\* what a dispatch of header finds before it runs
Found(header) ==
    LET E == EntriesOf(header.handle)
        e == g_handles[FirstSlot(E)]
        issued == {p[1] : p \in owner}
    IN [live |-> E # {},
        stale |-> header.handle \in freed,
        foreign |-> /\ header.handle \in issued
                    /\ <<header.handle, conn>> \notin owner,
        size |-> IF E = {} THEN 0 ELSE e.size,
        data |-> IF E = {} THEN <<>> ELSE blocks[e.ptr].data,
        next |-> g_next_handle,
        issued_max |-> IF issued = {} THEN 0
                       ELSE CHOOSE x \in issued : \A y \in issued : y <= x]

NoReq ==
    [header |-> NoHeader, payload |-> <<>>, conn |-> 0, fate |-> "none",
     header_read |-> 0, payload_read |-> 0]

Init ==
    /\ blocks = [a \in Addrs |-> FreshChunk]
    /\ g_stats = ZeroStats
    /\ g_handles = [i \in Slots |->
                      [handle |-> 0, ptr |-> NULL, size |-> 0, in_use |-> FALSE]]
    /\ g_next_handle = 1
    /\ pc = "accept"
    /\ conn = 0
    /\ cur = NoHeader
    /\ req = NoReq
    /\ resp = <<>>
    /\ nreq = 0
    /\ owner = {}
    /\ freed = {}
    /\ obs = NoObs
    /\ last = NoCall
    /\ ncalls = 0
    /\ proto = NoProto
    /\ ClientIdle

\* main: accept() returns the next connection
Accept ==
    /\ pc = "accept"
    /\ conn < MaxConn
    /\ conn' = conn + 1
    /\ pc' = "header"
    /\ UNCHANGED <<blocks, g_stats, g_handles, g_next_handle, cur, req, resp,
                   nreq, owner, freed, obs, last, ncalls, proto, clientVars>>

\* handle_client that empties the handle table when the connection ends
RecvHeaderClosed_cleans ==
    /\ pc = "header"
    /\ pc' = "accept"
    /\ req' = NoReq
    /\ resp' = <<>>
    /\ obs' = NoObs
    /\ g_handles' = [i \in Slots |->
                       [g_handles[i] EXCEPT !.in_use = FALSE, !.ptr = NULL]]
    /\ UNCHANGED <<blocks, g_stats, g_next_handle, conn, cur,
                   nreq, owner, freed, last, ncalls, proto, clientVars>>
\* handle_client: recv of the header returns n <= 0; break, close
RecvHeaderClosed ==
    /\ pc = "header"
    /\ pc' = "accept"
    /\ req' = NoReq
    /\ resp' = <<>>
    /\ obs' = NoObs
    /\ UNCHANGED <<blocks, g_stats, g_handles, g_next_handle, conn, cur,
                   nreq, owner, freed, last, ncalls, proto, clientVars>>

\* steps 5 and after of handle_client's loop body, reached after got_h
\* header bytes and got_p payload bytes were received; then is where the
\* loop's next recv stands
DispatchAfter(header, payload_null, payload, chunk, got_h, got_p, then) ==
    LET d == dispatch(Server, header, payload_null, payload, chunk)
        ok == d.sent # <<>> /\ d.sent[1].command = ETHER_CMD_OK
    IN /\ blocks' = d.s.m.blocks
       /\ g_stats' = d.s.m.stats
       /\ g_handles' = d.s.tab
       /\ g_next_handle' = d.s.next
       /\ req' = [header |-> header,
                  payload |-> IF header.command = ETHER_CMD_WRITE
                              THEN payload ELSE <<>>,
                  conn |-> conn, fate |-> "dispatched",
                  header_read |-> got_h, payload_read |-> got_p]
       /\ resp' = d.sent
       /\ owner' = IF header.command = ETHER_CMD_ALLOC /\ ok
                   THEN owner \cup {<<d.sent[1].handle, conn>>} ELSE owner
       /\ freed' = IF header.command = ETHER_CMD_FREE /\ ok
                   THEN freed \cup {header.handle} ELSE freed
       /\ obs' = [live |-> Found(header).live,
                  stale |-> Found(header).stale,
                  foreign |-> Found(header).foreign,
                  size |-> Found(header).size,
                  data |-> Found(header).data,
                  blocks_same |-> (d.s.m.blocks = blocks),
                  stats_same |-> (d.s.m.stats = g_stats),
                  tab_same |-> (d.s.tab = g_handles),
                  next |-> Found(header).next,
                  issued_max |-> Found(header).issued_max]
       /\ pc' = then
       /\ cur' = NoHeader

\* steps 5 and after of handle_client's loop body after complete reads
Dispatch(header, payload_null, payload, chunk) ==
    DispatchAfter(header, payload_null, payload, chunk,
                  ETHER_HEADER_SIZE, header.size, "header")

\* the chunk malloc returns when the dispatched command reaches ether_alloc
ChunksFor(header) ==
    IF header.command = ETHER_CMD_ALLOC /\ header.size # 0
    THEN MallocOutcomes(Mem) ELSE {NULL}

\* step 3 that leaves the loop on a header that fails validation
DropHeader_breaks(header) ==
    /\ req' = [header |-> header, payload |-> <<>>, conn |-> conn,
               fate |-> "dropped", header_read |-> ETHER_HEADER_SIZE,
               payload_read |-> 0]
    /\ resp' = <<>>
    /\ pc' = "accept"
    /\ UNCHANGED <<blocks, g_stats, g_handles, g_next_handle,
                   cur, owner, freed, obs>>

\* handle_client, step 3: the header fails validation; continue
DropHeader(header) ==
    /\ req' = [header |-> header, payload |-> <<>>, conn |-> conn,
               fate |-> "dropped", header_read |-> ETHER_HEADER_SIZE,
               payload_read |-> 0]
    /\ resp' = <<>>
    /\ UNCHANGED <<blocks, g_stats, g_handles, g_next_handle, pc,
                   cur, owner, freed, obs>>

\* handle_client: a full header arrives; steps 2-3, and 5 when size == 0
RecvHeader ==
    /\ pc = "header"
    /\ nreq < MaxReq
    /\ nreq' = nreq + 1
    /\ UNCHANGED <<conn, last, ncalls, proto, clientVars>>
    /\ \E header \in ValidHeaders \cup InvalidHeaders :
         IF ~ether_msg_validate(FALSE, header)
         THEN DropHeader(header)
         ELSE IF header.size > 0
         THEN /\ pc' = "payload"
              /\ cur' = header
              /\ req' = [header |-> header, payload |-> <<>>, conn |-> conn,
                         fate |-> "awaiting payload",
                         header_read |-> ETHER_HEADER_SIZE, payload_read |-> 0]
              /\ resp' = <<>>
              /\ UNCHANGED <<blocks, g_stats, g_handles, g_next_handle,
                             owner, freed, obs>>
         ELSE \E chunk \in ChunksFor(header) :
                Dispatch(header, TRUE, <<>>, chunk)

\* the payloads that can follow header: only handle_write is passed the
\* payload, so for the other commands one payload of the right length stands
\* for all of them
PayloadsFor(header) ==
    IF header.command = ETHER_CMD_WRITE THEN BytesOfLen(header.size)
    ELSE {Zeros(header.size)}

\* handle_client: the header.size payload bytes arrive; step 5
RecvPayload ==
    /\ pc = "payload"
    /\ UNCHANGED <<conn, nreq, last, ncalls, proto, clientVars>>
    /\ \E payload \in PayloadsFor(cur), chunk \in ChunksFor(cur) :
         Dispatch(cur, FALSE, payload, chunk)

\* handle_client: recv of the payload returns n <= 0; free, break, close
RecvPayloadClosed ==
    /\ pc = "payload"
    /\ pc' = "accept"
    /\ cur' = NoHeader
    /\ req' = NoReq
    /\ resp' = <<>>
    /\ obs' = NoObs
    /\ UNCHANGED <<blocks, g_stats, g_handles, g_next_handle, conn,
                   nreq, owner, freed, last, ncalls, proto, clientVars>>

Next ==
    \/ Accept
    \/ RecvHeaderClosed
    \/ RecvHeader
    \/ RecvPayload
    \/ RecvPayloadClosed

Spec == Init /\ [][Next]_vars


(***************************************************************************)
(* SpecShortRead: the daemon when recv may also deliver part of what was   *)
(* asked for.  With MSG_WAITALL that happens when the peer closes or an    *)
(* error or a signal arrives after some bytes; recv then returns their     *)
(* count, and the next recv returns 0 or fails.                            *)
(***************************************************************************)
Headers == ValidHeaders \cup InvalidHeaders

\* the counts of header bytes a short recv delivers: the ends of the fields
\* before the last one (a count inside a field mixes the bytes of two values)
ShortReads == {f[2] : f \in HeaderFields} \ {0}

\* whether the first n bytes of a header hold the whole field called name
Arrived(name, n) == \E f \in HeaderFields : f[1] = name /\ f[2] + f[3] <= n

\* what header_buf decodes to after recv wrote n bytes of fresh over stale
ShortHeader(n, fresh, stale) ==
    [f \in DOMAIN fresh |-> IF Arrived(f, n) THEN fresh[f] ELSE stale[f]]

\* what header_buf held before the recv: the previous header of this
\* connection, or anything at all when the buffer was never written
StaleHeaders == IF req.fate = "none" THEN Headers ELSE {req.header}

\* handle_client: recv of the header returns 0 < n < 24; steps 2-3, and 5
\* when the decoded size is 0
RecvHeaderShort ==
    /\ pc = "header"
    /\ nreq < MaxReq
    /\ nreq' = nreq + 1
    /\ UNCHANGED <<conn, last, ncalls, proto, clientVars>>
    /\ \E n \in ShortReads, fresh \in Headers, stale \in StaleHeaders :
         LET header == ShortHeader(n, fresh, stale)
         IN IF ~ether_msg_validate(FALSE, header) \/ header.size > 0
            THEN /\ req' = [header |-> header, payload |-> <<>>,
                            conn |-> conn,
                            fate |-> IF ether_msg_validate(FALSE, header)
                                     THEN "awaiting payload" ELSE "dropped",
                            header_read |-> n, payload_read |-> 0]
                 /\ resp' = <<>>
                 /\ pc' = "eof"
                 /\ UNCHANGED <<blocks, g_stats, g_handles, g_next_handle,
                                cur, owner, freed, obs>>
            ELSE \E chunk \in ChunksFor(header) :
                   DispatchAfter(header, TRUE, <<>>, chunk, n, 0, "eof")

\* handle_client: recv of the payload returns 0 < n < header.size; step 5 on
\* a buffer whose last bytes are what malloc left there
RecvPayloadShort ==
    /\ pc = "payload"
    /\ UNCHANGED <<conn, nreq, last, ncalls, proto, clientVars>>
    /\ \E n \in 1..(cur.size - 1) :
         \E payload \in PayloadsFor(cur), chunk \in ChunksFor(cur) :
           DispatchAfter(cur, FALSE, payload, chunk,
                         ETHER_HEADER_SIZE, n, "eof")

\* handle_client: the recv after a short one returns n <= 0; break, close
RecvEof ==
    /\ pc = "eof"
    /\ pc' = "accept"
    /\ cur' = NoHeader
    /\ req' = NoReq
    /\ resp' = <<>>
    /\ obs' = NoObs
    /\ UNCHANGED <<blocks, g_stats, g_handles, g_next_handle, conn,
                   nreq, owner, freed, last, ncalls, proto, clientVars>>

NextShortRead ==
    \/ Accept
    \/ RecvHeaderClosed
    \/ RecvHeader
    \/ RecvPayload
    \/ RecvPayloadClosed
    \/ RecvHeaderShort
    \/ RecvPayloadShort
    \/ RecvEof

SpecShortRead == Init /\ [][NextShortRead]_vars


(***************************************************************************)
(* SpecFilled: the local program of SpecAlloc after it has allocated a     *)
(* block of MaxSize bytes and written a non-zero byte to each of them; the *)
(* two calls count as FilledCalls of the MaxCalls calls it makes.          *)
(***************************************************************************)
\* the bytes the program wrote
Filled == [i \in 1..MaxSize |-> MaxByte]

InitFilled ==
    LET none == [blocks |-> [a \in Addrs |-> FreshChunk], stats |-> ZeroStats]
        a == ether_alloc(none, MaxSize, 1)
        w == ether_write(a.m, a.ret, FALSE, Filled, MaxSize)
    IN /\ blocks = w.m.blocks
       /\ g_stats = w.m.stats
       /\ last = [NoCall EXCEPT !.op = "write", !.ptr = a.ret, !.n = MaxSize,
                                !.data = Filled, !.ret = w.ret,
                                !.pre = a.m.blocks[a.ret],
                                !.usage = a.m.stats.current_usage]
       /\ ncalls = FilledCalls
       /\ proto = NoProto
       /\ ClientIdle
       /\ g_handles = [i \in Slots |->
                         [handle |-> 0, ptr |-> NULL, size |-> 0,
                          in_use |-> FALSE]]
       /\ g_next_handle = 1
       /\ pc = "accept"
       /\ conn = 0
       /\ cur = NoHeader
       /\ req = NoReq
       /\ resp = <<>>
       /\ nreq = 0
       /\ owner = {}
       /\ freed = {}
       /\ obs = NoObs

SpecFilled == InitFilled /\ [][NextAlloc]_vars


(***************************************************************************)
(* The client library.  A client value c is [cache, heap]; every function  *)
(* returns the client it leaves, its result and the messages it sent.  The *)
(* network is an input: net says whether send_message succeeded, whether   *)
(* recv_response did, and the response it decoded.                         *)
(***************************************************************************)
Client == [cache |-> g_cache, heap |-> lheap]

FreeEntries(cache) == {i \in CacheSlots : ~cache[i].valid}

EntriesFor(cache, local) ==
    {i \in CacheSlots : cache[i].valid /\ cache[i].local_ptr = local}

\* the cache has a valid entry for the token
Cached(cache, ptr) == EntriesFor(cache, ptr) # {}

\* cache_store(local, remote, size)
cache_store(cache, local, remote, size) ==
    IF FreeEntries(cache) = {} THEN [ret |-> -1, cache |-> cache]
    ELSE LET i == FirstSlot(FreeEntries(cache))
         IN [ret |-> 0,
             cache |-> [cache EXCEPT ![i] =
                          [local_ptr |-> local, remote_handle |-> remote,
                           size |-> size, valid |-> TRUE]]]

\* cache_lookup(local, &size)
cache_lookup(cache, local) ==
    IF EntriesFor(cache, local) = {} THEN [handle |-> 0, size |-> 0]
    ELSE LET i == FirstSlot(EntriesFor(cache, local))
         IN [handle |-> cache[i].remote_handle, size |-> cache[i].size]

\* cache_remove(local)
cache_remove(cache, local) ==
    IF EntriesFor(cache, local) = {} THEN cache
    ELSE LET i == FirstSlot(EntriesFor(cache, local))
         IN [cache EXCEPT ![i].valid = FALSE]

\* the message ether_msg_create(cmd, Len(payload)) returns, after the caller
\* has set its handle, its payload bytes and its size field, a uint32_t that
\* keeps the low bits of the size_t assigned to it
Message(cmd, handle, size, payload) ==
    [magic |-> ETHER_MAGIC, version |-> ETHER_PROTOCOL_VER, command |-> cmd,
     flags |-> 0, handle |-> handle, size |-> size % SizeFieldMod,
     reserved |-> 0, payload |-> payload]

\* what calloc may return to ether_rmalloc: NULL, a released address, or the
\* lowest address never handed out
CallocOutcomes(heap) ==
    LET released == {a \in LocalAddrs : heap[a].state = "freed"}
        untouched == {a \in LocalAddrs : heap[a].state = "never"}
    IN {NULL} \cup released
              \cup {a \in untouched : \A b \in untouched : a <= b}

\* ether_rmalloc(conn, size); chunk is what calloc returns for the local
\* buffer; the message is created without payload
ether_rmalloc(c, conn_ok, size, net, chunk) ==
    IF ~conn_ok \/ size = 0 THEN [ret |-> NULL, c |-> c, sent |-> <<>>]
    ELSE
      LET sent == <<Message(ETHER_CMD_ALLOC, 0, size, <<>>)>>
      IN IF ~net.sent \/ ~net.recv \/ net.command # ETHER_CMD_OK
           \/ chunk = NULL
         THEN [ret |-> NULL, c |-> c, sent |-> sent]
         ELSE
           LET st == cache_store(c.cache, chunk, net.handle, size)
           IN IF st.ret # 0 THEN [ret |-> NULL, c |-> c, sent |-> sent]
              ELSE [ret |-> chunk,
                    c |-> [cache |-> st.cache,
                           heap |-> [c.heap EXCEPT ![chunk] =
                                       [state |-> "held",
                                        data |-> Zeros(size)]]],
                    sent |-> sent]

\* ether_rfree that keeps the entry when the server does not answer OK
ether_rfree_waits_ok(c, conn_ok, ptr, net) ==
    IF ~conn_ok \/ ptr = NULL THEN [c |-> c, sent |-> <<>>]
    ELSE
      LET handle == cache_lookup(c.cache, ptr).handle
      IN IF handle = 0 THEN [c |-> c, sent |-> <<>>]
         ELSE IF ~net.sent \/ ~net.recv \/ net.command # ETHER_CMD_OK
         THEN [c |-> c, sent |-> <<Message(ETHER_CMD_FREE, handle, 0, <<>>)>>]
         ELSE [c |-> [cache |-> cache_remove(c.cache, ptr),
                      heap |-> [c.heap EXCEPT ![ptr].state = "freed"]],
               sent |-> <<Message(ETHER_CMD_FREE, handle, 0, <<>>)>>]

\* ether_rfree(conn, ptr): the results of send_message and recv_response
\* are not looked at
ether_rfree(c, conn_ok, ptr, net) ==
    IF ~conn_ok \/ ptr = NULL THEN [c |-> c, sent |-> <<>>]
    ELSE
      LET handle == cache_lookup(c.cache, ptr).handle
      IN IF handle = 0 THEN [c |-> c, sent |-> <<>>]
         ELSE [c |-> [cache |-> cache_remove(c.cache, ptr),
                      heap |-> [c.heap EXCEPT ![ptr].state = "freed"]],
               sent |-> <<Message(ETHER_CMD_FREE, handle, 0, <<>>)>>]

\* ether_rwrite that updates the mirror buffer before it sends
ether_rwrite_eager(c, conn_ok, ptr, data_null, data, len, net) ==
    IF ~conn_ok \/ ptr = NULL \/ data_null
    THEN [ret |-> ETHER_ERR_INVALID, c |-> c, sent |-> <<>>]
    ELSE
      LET found == cache_lookup(c.cache, ptr)
          sent == <<Message(ETHER_CMD_WRITE, found.handle, len,
                            SubSeq(data, 1, len))>>
          written == [c EXCEPT !.heap[ptr].data = Memcpy(@, data, len)]
      IN IF found.handle = 0
         THEN [ret |-> ETHER_ERR_NOTFOUND, c |-> c, sent |-> <<>>]
         ELSE IF len > found.size
         THEN [ret |-> ETHER_ERR_OVERFLOW, c |-> c, sent |-> <<>>]
         ELSE IF len > ETHER_MAX_PAYLOAD
         THEN [ret |-> ETHER_ERR_NOMEM, c |-> c, sent |-> <<>>]
         ELSE IF ~net.sent \/ ~net.recv
         THEN [ret |-> ETHER_ERR_NETWORK, c |-> written, sent |-> sent]
         ELSE IF net.command # ETHER_CMD_OK
         THEN [ret |-> ETHER_ERR_INVALID, c |-> written, sent |-> sent]
         ELSE [ret |-> ETHER_OK, c |-> written, sent |-> sent]

\* ether_rwrite(conn, ptr, data, len)
ether_rwrite(c, conn_ok, ptr, data_null, data, len, net) ==
    IF ~conn_ok \/ ptr = NULL \/ data_null
    THEN [ret |-> ETHER_ERR_INVALID, c |-> c, sent |-> <<>>]
    ELSE
      LET found == cache_lookup(c.cache, ptr)
          sent == <<Message(ETHER_CMD_WRITE, found.handle, len,
                            SubSeq(data, 1, len))>>
      IN IF found.handle = 0
         THEN [ret |-> ETHER_ERR_NOTFOUND, c |-> c, sent |-> <<>>]
         ELSE IF len > found.size
         THEN [ret |-> ETHER_ERR_OVERFLOW, c |-> c, sent |-> <<>>]
         ELSE IF len > ETHER_MAX_PAYLOAD
         THEN [ret |-> ETHER_ERR_NOMEM, c |-> c, sent |-> <<>>]
         ELSE IF ~net.sent \/ ~net.recv
         THEN [ret |-> ETHER_ERR_NETWORK, c |-> c, sent |-> sent]
         ELSE IF net.command # ETHER_CMD_OK
         THEN [ret |-> ETHER_ERR_INVALID, c |-> c, sent |-> sent]
         ELSE [ret |-> ETHER_OK,
               c |-> [c EXCEPT !.heap[ptr].data = Memcpy(@, data, len)],
               sent |-> sent]

\* ether_rread(conn, ptr, buffer, len); out is what recv_response stored in
\* the buffer
ether_rread(c, conn_ok, ptr, buffer_null, len, net) ==
    IF ~conn_ok \/ ptr = NULL \/ buffer_null
    THEN [ret |-> ETHER_ERR_INVALID, out |-> <<>>, sent |-> <<>>]
    ELSE
      LET found == cache_lookup(c.cache, ptr)
          capped == Min(len, found.size)
          sent == <<Message(ETHER_CMD_READ, found.handle, capped, <<>>)>>
      IN IF found.handle = 0
         THEN [ret |-> ETHER_ERR_NOTFOUND, out |-> <<>>, sent |-> <<>>]
         ELSE IF ~net.sent \/ ~net.recv
         THEN [ret |-> ETHER_ERR_NETWORK, out |-> <<>>, sent |-> sent]
         ELSE [ret |-> IF net.command # ETHER_CMD_OK
                       THEN ETHER_ERR_INVALID ELSE ETHER_OK,
               out |-> SubSeq(net.payload, 1,
                              Min(Len(net.payload), capped)),
               sent |-> sent]

\* ether_rsize(conn, ptr)
ether_rsize(c, conn_ok, ptr) ==
    IF ~conn_ok \/ ptr = NULL THEN 0
    ELSE cache_lookup(c.cache, ptr).size


(***************************************************************************)
(* SpecClient: a program driving the client library on one connection; the *)
(* server is the environment.                                              *)
(***************************************************************************)
NoAnswer ==
    [sent |-> FALSE, recv |-> FALSE, command |-> 0, handle |-> 0,
     payload |-> <<>>]

\* how the exchange of one request can go: the send fails, the receive
\* fails, or the server answers OK or ERROR with handle and payload
NetOutcomes(handles, payloads) ==
    {NoAnswer, [NoAnswer EXCEPT !.sent = TRUE]}
      \cup { [sent |-> TRUE, recv |-> TRUE, command |-> cmd, handle |-> h,
              payload |-> IF cmd = ETHER_CMD_OK THEN p ELSE <<>>] :
              cmd \in {ETHER_CMD_OK, ETHER_CMD_ERROR}, h \in handles,
              p \in payloads }

\* the byte strings of length n the program writes and the server returns:
\* one byte value repeated
Uniform(n) == {[i \in 1..n |-> b] : b \in Byte}

\* the last call of the program: arguments, results, messages sent, and how
\* the exchange went
Rcall(op, ptr, n) == [NoRcall EXCEPT !.op = op, !.ptr = ptr, !.n = n]

\* pointers the program can pass: NULL and every pointer ether_rmalloc has
\* returned, released or not
KnownTokens == {NULL} \cup {a \in LocalAddrs : lheap[a].state # "never"}

InitClient ==
    /\ blocks = [a \in Addrs |-> FreshChunk]
    /\ g_stats = ZeroStats
    /\ g_handles = [i \in Slots |->
                      [handle |-> 0, ptr |-> NULL, size |-> 0, in_use |-> FALSE]]
    /\ g_next_handle = 1
    /\ pc = "accept"
    /\ conn = 0
    /\ cur = NoHeader
    /\ req = NoReq
    /\ resp = <<>>
    /\ nreq = 0
    /\ owner = {}
    /\ freed = {}
    /\ obs = NoObs
    /\ last = NoRcall
    /\ ncalls = 0
    /\ proto = NoProto
    /\ ClientIdle

ClientReturned(c, call) ==
    /\ ncalls < MaxCalls
    /\ ncalls' = ncalls + 1
    /\ g_cache' = c.cache
    /\ lheap' = c.heap
    /\ last' = call
    /\ UNCHANGED <<allocVars, serverVars, proto, link>>

\* a call that sends nothing has no exchange
NetFor(sends, handles, payloads) ==
    IF sends THEN NetOutcomes(handles, payloads) ELSE {NoAnswer}

CallRmalloc ==
    \E size \in 0..MaxSize :
      \E net \in NetFor(size # 0, {1, MaxRemote}, {<<>>}) :
      \E chunk \in IF net.recv /\ net.command = ETHER_CMD_OK
                    THEN CallocOutcomes(lheap) ELSE {NULL} :
        LET r == ether_rmalloc(Client, TRUE, size, net, chunk)
        IN ClientReturned(r.c, [Rcall("rmalloc", NULL, size) EXCEPT
                                  !.ret = r.ret, !.sent = r.sent,
                                  !.net = IF r.sent = <<>> THEN NoAnswer
                                          ELSE net])

CallRfree ==
    \E ptr \in KnownTokens :
      \E net \in NetFor(ether_rfree(Client, TRUE, ptr, NoAnswer).sent # <<>>,
                        {cache_lookup(g_cache, ptr).handle}, {<<>>}) :
      LET r == ether_rfree(Client, TRUE, ptr, net)
      IN ClientReturned(r.c, [Rcall("rfree", ptr, 0) EXCEPT
                                !.sent = r.sent,
                                !.net = IF r.sent = <<>> THEN NoAnswer
                                        ELSE net])

CallRwrite ==
    \E ptr \in KnownTokens, len \in 0..(MaxSize + 1), data_null \in BOOLEAN :
      \E D \in IF data_null THEN {<<>>} ELSE Uniform(len) :
      \E net \in NetFor(ether_rwrite(Client, TRUE, ptr, data_null, D,
                                     Len(D), NoAnswer).sent # <<>>,
                        {cache_lookup(g_cache, ptr).handle}, {<<>>}) :
      LET r == ether_rwrite(Client, TRUE, ptr, data_null, D, Len(D), net)
      IN ClientReturned(r.c, [Rcall(IF data_null THEN "rwrite_null"
                                        ELSE "rwrite", ptr, Len(D)) EXCEPT
                                   !.data = D, !.ret = r.ret,
                                   !.sent = r.sent,
                                   !.net = IF r.sent = <<>> THEN NoAnswer
                                           ELSE net])

CallRread ==
    \E ptr \in KnownTokens, len \in 0..(MaxSize + 1) :
      \E net \in NetFor(Cached(g_cache, ptr),
                        {cache_lookup(g_cache, ptr).handle},
                        Uniform(Min(len, cache_lookup(g_cache, ptr).size))) :
        LET r == ether_rread(Client, TRUE, ptr, FALSE, len, net)
        IN ClientReturned(Client, [Rcall("rread", ptr, len) EXCEPT
                                     !.ret = r.ret, !.out = r.out,
                                     !.sent = r.sent,
                                     !.net = IF r.sent = <<>> THEN NoAnswer
                                             ELSE net])

CallRsize ==
    \E ptr \in KnownTokens :
      ClientReturned(Client, [Rcall("rsize", ptr, 0) EXCEPT
                                !.ret = ether_rsize(Client, TRUE, ptr)])

NextClient ==
    \/ CallRmalloc
    \/ CallRfree
    \/ CallRwrite
    \/ CallRread
    \/ CallRsize

SpecClient == InitClient /\ [][NextClient]_vars


(***************************************************************************)
(* SpecRemote: the client library and the daemon on one connection.  A     *)
(* call of the library that reaches send_message puts its request on the   *)
(* connection and waits in recv_response; handle_client reads the request, *)
(* dispatches it and writes the response; the call returns when it has     *)
(* read a response.  A header crosses the connection field by field, as    *)
(* ether_msg_serialize_header and ether_msg_deserialize_header carry it.   *)
(***************************************************************************)
\* int ether_ping(conn)
ether_ping(conn_ok, net) ==
    IF ~conn_ok THEN [ret |-> -1, sent |-> <<>>]
    ELSE [ret |-> IF net.sent /\ net.recv /\ net.command = ETHER_CMD_PONG
                  THEN 0 ELSE -1,
          sent |-> <<Message(ETHER_CMD_PING, 0, 0, <<>>)>>]

\* the payload bytes recv_response leaves unread of a response that carries
\* size of them
recv_unread(size, payload_buf_null, payload_max) ==
    IF size > 0 /\ ~payload_buf_null THEN size - Min(size, payload_max)
    ELSE size

\* the header of a message as handle_client deserializes it
HeaderOf(msg) ==
    [magic |-> msg.magic, version |-> msg.version, command |-> msg.command,
     handle |-> msg.handle, size |-> msg.size]

\* send_message reads msg->header.size bytes at msg->payload: more than the
\* message was created with
Overreads(msg) == msg.size > Len(msg.payload)

\* the library function of a call applied to the outcome of its exchange
ApplyCall(call, net, chunk) ==
    CASE call.op = "ping" ->
           LET r == ether_ping(TRUE, net)
           IN [ret |-> r.ret, c |-> Client, out |-> <<>>, sent |-> r.sent]
      [] call.op = "rmalloc" ->
           LET r == ether_rmalloc(Client, TRUE, call.n, net, chunk)
           IN [ret |-> r.ret, c |-> r.c, out |-> <<>>, sent |-> r.sent]
      [] call.op = "rfree" ->
           LET r == ether_rfree(Client, TRUE, call.ptr, net)
           IN [ret |-> 0, c |-> r.c, out |-> <<>>, sent |-> r.sent]
      [] call.op = "rwrite" ->
           LET r == ether_rwrite(Client, TRUE, call.ptr, FALSE, call.data,
                                 call.n, net)
           IN [ret |-> r.ret, c |-> r.c, out |-> <<>>, sent |-> r.sent]
      [] call.op = "rread" ->
           LET r == ether_rread(Client, TRUE, call.ptr, FALSE, call.n, net)
           IN [ret |-> r.ret, c |-> Client, out |-> r.out, sent |-> r.sent]

\* what the call's recv_response leaves unread of response
UnreadBy(call, response) ==
    IF call.op = "rread"
    THEN recv_unread(response.size, FALSE,
                     Min(call.n, cache_lookup(g_cache, call.ptr).size))
    ELSE recv_unread(response.size, TRUE, 0)

\* sizes a program asks of ether_rmalloc: none, within the payload bound,
\* beyond it, and beyond the range of the header's size field
RemoteSizes ==
    {0, 1, ETHER_MAX_PAYLOAD, ETHER_MAX_PAYLOAD + 1, SizeFieldMod,
     SizeFieldMod + 1}

InitRemote ==
    /\ blocks = [a \in Addrs |-> FreshChunk]
    /\ g_stats = ZeroStats
    /\ g_handles = [i \in Slots |->
                      [handle |-> 0, ptr |-> NULL, size |-> 0, in_use |-> FALSE]]
    /\ g_next_handle = 1
    /\ pc = "header"
    /\ conn = 1
    /\ cur = NoHeader
    /\ req = NoReq
    /\ resp = <<>>
    /\ nreq = 0
    /\ owner = {}
    /\ freed = {}
    /\ obs = NoObs
    /\ last = NoRcall
    /\ ncalls = 0
    /\ proto = NoProto
    /\ ClientIdle

\* the program calls a library function.  A call that fails its argument or
\* cache checks returns at once.  Otherwise send_message writes the request;
\* when it reads beyond the message the kernel may copy all the bytes or
\* stop short, and then send_message fails and the call returns
StartCall(call) ==
    /\ link.call.op = "none"
    /\ link.stray = 0
    /\ ncalls < MaxCalls
    /\ ncalls' = ncalls + 1
    /\ UNCHANGED <<allocVars, serverVars, proto>>
    /\ LET r == ApplyCall(call, NoRcall.net, NULL)
       IN IF r.sent = <<>>
          THEN /\ g_cache' = r.c.cache
               /\ lheap' = r.c.heap
               /\ last' = [call EXCEPT !.ret = r.ret, !.out = r.out]
               /\ link' = link
          ELSE \/ /\ link' = [link EXCEPT
                               !.call = call,
                               !.out = Append(@, [msg |-> r.sent[1],
                                                  short |-> FALSE])]
                  /\ UNCHANGED <<g_cache, lheap, last>>
               \/ /\ Overreads(r.sent[1])
                  /\ call.op # "rfree"
                  /\ link' = [link EXCEPT
                               !.out = Append(@, [msg |-> r.sent[1],
                                                  short |-> TRUE])]
                  /\ last' = [call EXCEPT !.ret = r.ret, !.sent = r.sent]
                  /\ UNCHANGED <<g_cache, lheap>>

StartPing == StartCall(Rcall("ping", NULL, 0))

StartRmalloc == \E size \in RemoteSizes : StartCall(Rcall("rmalloc", NULL, size))

StartRfree == \E ptr \in KnownTokens : StartCall(Rcall("rfree", ptr, 0))

StartRwrite ==
    \E ptr \in KnownTokens, len \in 0..MaxSize :
      \E D \in Uniform(len) :
        StartCall([Rcall("rwrite", ptr, len) EXCEPT !.data = D])

StartRread ==
    \E ptr \in KnownTokens, len \in 0..(ETHER_MAX_PAYLOAD + 1) :
      StartCall(Rcall("rread", ptr, len))

\* recv_response of the waiting call reads the next response and the call
\* returns
ReturnCall ==
    /\ link.call.op # "none"
    /\ link.back # <<>>
    /\ UNCHANGED <<allocVars, serverVars, ncalls, proto>>
    /\ LET response == Head(link.back)
           call == link.call
           net == [sent |-> TRUE, recv |-> TRUE, command |-> response.command,
                   handle |-> response.handle, payload |-> response.payload]
       IN \E chunk \in IF call.op = "rmalloc" /\ net.command = ETHER_CMD_OK
                        THEN CallocOutcomes(lheap) ELSE {NULL} :
            LET r == ApplyCall(call, net, chunk)
            IN /\ g_cache' = r.c.cache
               /\ lheap' = r.c.heap
               /\ last' = [call EXCEPT !.ret = r.ret, !.out = r.out,
                                       !.sent = r.sent, !.net = net]
               /\ link' = [link EXCEPT !.call = NoRcall, !.back = Tail(@),
                                       !.stray = UnreadBy(call, response)]

\* handle_client reads the next request at a message boundary.  A header
\* that fails validation is dropped and the bytes sent behind it stay in the
\* stream; a request whose payload was sent in full is dispatched; one whose
\* payload stopped short leaves the daemon in its payload recv
ServeRequest ==
    /\ pc = "header"
    /\ ~link.junk
    /\ link.out # <<>>
    /\ nreq < MaxReq
    /\ nreq' = nreq + 1
    /\ UNCHANGED <<conn, last, ncalls, proto, g_cache, lheap>>
    /\ LET item == Head(link.out)
           header == HeaderOf(item.msg)
           payload == IF Len(item.msg.payload) = header.size
                      THEN item.msg.payload ELSE Zeros(header.size)
       IN IF ~ether_msg_validate(FALSE, header)
          THEN /\ DropHeader(header)
               /\ \E left \in IF item.short THEN BOOLEAN ELSE {TRUE} :
                    link' = [link EXCEPT !.out = Tail(@), !.junk = left]
          ELSE IF header.size > 0 /\ item.short
          THEN /\ pc' = "payload"
               /\ cur' = header
               /\ req' = [header |-> header, payload |-> <<>>, conn |-> conn,
                          fate |-> "awaiting payload",
                          header_read |-> ETHER_HEADER_SIZE,
                          payload_read |-> 0]
               /\ resp' = <<>>
               /\ UNCHANGED <<blocks, g_stats, g_handles, g_next_handle,
                              owner, freed, obs>>
               /\ link' = [link EXCEPT !.out = Tail(@), !.starved = TRUE]
          ELSE \E chunk \in ChunksFor(header) :
                 /\ Dispatch(header, header.size = 0, payload, chunk)
                 /\ link' = [link EXCEPT !.out = Tail(@),
                                         !.back = @ \o resp']

\* handle_client in its payload recv for a request whose payload stopped
\* short: the bytes of the next request complete it, the request is
\* dispatched, and what is left of the next request is no message
ServeStarved ==
    /\ pc = "payload"
    /\ link.starved
    /\ link.out # <<>>
    /\ UNCHANGED <<conn, nreq, last, ncalls, proto, g_cache, lheap>>
    /\ \E payload \in PayloadsFor(cur), chunk \in ChunksFor(cur) :
         /\ Dispatch(cur, FALSE, payload, chunk)
         /\ link' = [link EXCEPT !.out = Tail(@), !.junk = TRUE,
                                 !.starved = FALSE, !.back = @ \o resp']

\* what 24 bytes that are no message decode to: of all headers, the model
\* follows one that fails validation, PING, and READ of a handle in use
JunkHeaders ==
    {h \in Headers :
       \/ h.magic = BAD_MAGIC
       \/ /\ ether_msg_validate(FALSE, h)
          /\ \/ h.command = ETHER_CMD_PING /\ h.size = 0
             \/ h.command = ETHER_CMD_READ /\ EntriesOf(h.handle) # {}
                                           /\ h.size = 1}

\* handle_client reads a header where bytes that are no message stand: what
\* send_message read behind a message is whatever the client's heap held
\* there, so the 24 bytes can decode to any header; ends says the bytes stop
\* at the end of this group
ServeJunk ==
    /\ pc = "header"
    /\ link.junk
    /\ nreq < MaxReq
    /\ nreq' = nreq + 1
    /\ UNCHANGED <<conn, last, ncalls, proto, g_cache, lheap>>
    /\ \E header \in JunkHeaders, ends \in BOOLEAN :
         IF ~ether_msg_validate(FALSE, header)
         THEN /\ DropHeader(header)
              /\ link' = [link EXCEPT !.junk = ~ends]
         ELSE \E payload \in PayloadsFor(header), chunk \in ChunksFor(header) :
                /\ Dispatch(header, header.size = 0, payload, chunk)
                /\ link' = [link EXCEPT !.junk = ~ends, !.back = @ \o resp']

NextRemote ==
    \/ StartPing
    \/ StartRmalloc
    \/ StartRfree
    \/ StartRwrite
    \/ StartRread
    \/ ReturnCall
    \/ ServeRequest
    \/ ServeStarved
    \/ ServeJunk

SpecRemote == InitRemote /\ [][NextRemote]_vars

\* the daemon serves what it has received and recv_response returns once a
\* response has arrived
FairRemote ==
    /\ SpecRemote
    /\ WF_vars(ServeRequest)
    /\ WF_vars(ServeStarved)
    /\ WF_vars(ServeJunk)
    /\ WF_vars(ReturnCall)


(***************************************************************************)
(* SpecProtocol: the functions of the protocol module applied to headers   *)
(* drawn from the values of their fields.                                  *)
(***************************************************************************)
\* the largest value of a field of w bytes
MaxField(w) == Pow(ByteBase, w) - 1

\* a value of w bytes whose neighbouring bytes differ
RECURSIVE Pattern(_)
Pattern(w) ==
    IF w = 0 THEN 0
    ELSE ShlByte(w % ByteBase, w - 1) + Pattern(w - 1)

\* the widths in bytes of the header's fields
FieldWidths == {f[3] : f \in HeaderFields}

\* a header whose field of w bytes holds val[w]
UniformHeader(val) ==
    [magic |-> val[4], version |-> val[1], command |-> val[1],
     flags |-> val[2], handle |-> val[8], size |-> val[4], reserved |-> val[4]]

\* the headers with every byte clear and with every byte set
AllZero == UniformHeader([w \in FieldWidths |-> 0])

AllMax == UniformHeader([w \in FieldWidths |-> MaxField(w)])

\* headers for the codec: every field 0, the largest value or a pattern, in
\* all combinations, and every header with one byte set in one field or one
\* byte cleared in one field
CodecHeaders ==
    LET Edge(w) == {0, MaxField(w), Pattern(w)}
        combos == [magic : Edge(4), version : Edge(1), command : Edge(1),
                   flags : Edge(2), handle : Edge(8), size : Edge(4),
                   reserved : Edge(4)]
        onebyte == UNION { UNION { { [AllZero EXCEPT
                                        ![f[1]] = ShlByte(MaxByte, k)],
                                     [AllMax EXCEPT
                                        ![f[1]] = @ - ShlByte(MaxByte, k)] }
                                   : k \in 0..(f[3] - 1) }
                           : f \in HeaderFields }
    IN combos \cup onebyte

\* what an uninitialized buffer or header may hold
FreshBuffers ==
    { [i \in 1..ETHER_HEADER_SIZE |-> 0],
      [i \in 1..ETHER_HEADER_SIZE |-> MaxByte] }

FreshHeaders == {AllZero, AllMax}

\* headers for ether_msg_validate: the sentinel and another magic, the
\* supported version and its neighbours, sizes up to one past the maximum,
\* and several values of the fields it does not read
ValidateHeaders ==
    [magic : {ETHER_MAGIC, BAD_MAGIC},
     version : {ETHER_PROTOCOL_VER - 1, ETHER_PROTOCOL_VER,
                ETHER_PROTOCOL_VER + 1},
     command : {UNASSIGNED_CMD, ETHER_CMD_PING, ETHER_CMD_REALLOC,
                ETHER_CMD_ERROR},
     flags : {0, 1},
     handle : {0, 1},
     size : 0..(ETHER_MAX_PAYLOAD + 1),
     reserved : {0, 1}]

InitProtocol ==
    /\ blocks = [a \in Addrs |-> FreshChunk]
    /\ g_stats = ZeroStats
    /\ g_handles = [i \in Slots |->
                      [handle |-> 0, ptr |-> NULL, size |-> 0, in_use |-> FALSE]]
    /\ g_next_handle = 1
    /\ pc = "accept"
    /\ conn = 0
    /\ cur = NoHeader
    /\ req = NoReq
    /\ resp = <<>>
    /\ nreq = 0
    /\ owner = {}
    /\ freed = {}
    /\ obs = NoObs
    /\ last = NoCall
    /\ ncalls = 0
    /\ ClientIdle
    /\ \/ \E header \in CodecHeaders, little_endian \in BOOLEAN :
            proto = [op |-> "codec input", header |-> header,
                     little_endian |-> little_endian]
       \/ \E header \in ValidateHeaders :
            proto = [op |-> "validate input", header |-> header]

\* ether_msg_serialize_header(&header, buffer) on a fresh buffer
Serialize ==
    /\ proto.op = "codec input"
    /\ \E buffer \in FreshBuffers, header_null \in BOOLEAN,
          buffer_null \in BOOLEAN :
         proto' = [op |-> IF header_null \/ buffer_null
                          THEN "serialize refused" ELSE "serialized",
                   header |-> proto.header,
                   little_endian |-> proto.little_endian,
                   fresh |-> buffer,
                   buffer |-> ether_msg_serialize_header(
                                header_null, proto.header, buffer_null,
                                buffer, proto.little_endian)]
    /\ UNCHANGED <<allocVars, serverVars, last, ncalls, clientVars>>

\* ether_msg_deserialize_header(buffer, &out) on a fresh header
Deserialize ==
    /\ proto.op = "serialized"
    /\ \E out \in FreshHeaders, header_null \in BOOLEAN,
          buffer_null \in BOOLEAN :
         proto' = [op |-> IF header_null \/ buffer_null
                          THEN "deserialize refused" ELSE "deserialized",
                   header |-> proto.header,
                   little_endian |-> proto.little_endian,
                   buffer |-> proto.buffer,
                   fresh |-> out,
                   out |-> ether_msg_deserialize_header(
                             buffer_null, proto.buffer, header_null, out,
                             proto.little_endian)]
    /\ UNCHANGED <<allocVars, serverVars, last, ncalls, clientVars>>

\* ether_msg_validate(&header), or ether_msg_validate(NULL)
Validate ==
    /\ proto.op = "validate input"
    /\ \E header_null \in BOOLEAN :
         proto' = [op |-> "validated",
                   header |-> proto.header,
                   header_null |-> header_null,
                   ok |-> ether_msg_validate(header_null, proto.header)]
    /\ UNCHANGED <<allocVars, serverVars, last, ncalls, clientVars>>

NextProtocol ==
    \/ Serialize
    \/ Deserialize
    \/ Validate

SpecProtocol == InitProtocol /\ [][NextProtocol]_vars

(***************************************************************************)
(* Properties of the allocator, checked under SpecAlloc.                   *)
(***************************************************************************)
\* the block is allocated and addressable
Live(b) == b.held /\ b.magic = BLOCK_MAGIC /\ b.flags = FLAG_ALLOCATED

\* C4: in every state reachable by allocate, release, resize and
\* reset_statistics calls, total_allocated - total_freed = current_usage
\* (as machine words) and current_usage <= peak_usage.
C4_StatsInvariant ==
    /\ WSub(g_stats.total_allocated, g_stats.total_freed) = g_stats.current_usage
    /\ g_stats.current_usage <= g_stats.peak_usage

\* the last call was a write of last.n <= size bytes to a live block
WroteWithinSize ==
    /\ last.op = "write"
    /\ Live(last.pre)
    /\ last.n <= last.pre.size

\* such a write returns OK, the block holds the n bytes of D followed by the
\* bytes it held at offsets >= n, and its header is as before
WriteStoresPrefix ==
    WroteWithinSize =>
      /\ last.ret = ETHER_OK
      /\ blocks[last.ptr] =
           [last.pre EXCEPT !.data =
              [i \in 1..Len(last.pre.data) |->
                 IF i <= last.n THEN last.data[i] ELSE last.pre.data[i]]]

\* a read of the same n bytes that follows it returns OK and D's n bytes
ReadAfterWrite ==
    ( /\ WroteWithinSize
      /\ ncalls' = ncalls + 1
      /\ last'.op = "read"
      /\ last'.ptr = last.ptr
      /\ last'.n = last.n )
    => /\ last'.ret = ETHER_OK
       /\ last'.out = SubSeq(last.data, 1, last.n)

\* C5: for a LIVE region and 0 <= len <= size_of(region), write(region, D, len)
\* returns OK, a following read(region, buf, len) returns OK with buf equal to
\* the first len bytes of D, and the bytes at offsets >= len are unchanged.
C5_WriteReadRoundTrip == [](WriteStoresPrefix) /\ [][ReadAfterWrite]_vars

\* a non-zero byte was read back from a block
C5_Witness ==
    /\ last.op = "read"
    /\ last.ret = ETHER_OK
    /\ last.n = MaxSize
    /\ last.out = [i \in 1..MaxSize |-> MaxByte]

\* C7: for a LIVE region, write with len > size_of(region) returns Overflow
\* and leaves every byte of the block and its header unchanged.
C7_WriteOverflow ==
    ( /\ last.op = "write"
      /\ Live(last.pre)
      /\ last.n > last.pre.size )
    => /\ last.ret = ETHER_ERR_OVERFLOW
       /\ blocks[last.ptr] = last.pre

\* an oversized write was refused on a block that had been shrunk in place
C7_Witness ==
    /\ last.op = "write"
    /\ Live(last.pre)
    /\ last.n > last.pre.size
    /\ last.n <= last.pre.capacity
    /\ last.ret = ETHER_ERR_OVERFLOW

\* a successful allocate(size) yields a region of size_of = size
AllocGivesSize ==
    (last.op = "alloc" /\ last.ret # NULL) =>
      /\ last.n > 0
      /\ ether_size(Mem, last.ret) = last.n
      /\ g_stats.current_usage = WAdd(last.usage, last.n)

\* releasing a live region lowers current_usage by the region's size
ReleaseLowersUsage ==
    (last.op = "free" /\ Live(last.pre)) =>
      g_stats.current_usage = WSub(last.usage, last.pre.size)

\* releasing that region right away restores current_usage
ReleaseRestoresUsage ==
    ( /\ last.op = "alloc"
      /\ last.ret # NULL
      /\ ncalls' = ncalls + 1
      /\ last'.op = "free"
      /\ last'.ptr = last.ret )
    => g_stats'.current_usage = last.usage

\* C10: for every size > 0 and every prior allocator state, a successful
\* allocate(size) yields a region with size_of(region) = size, and releasing
\* that region (no resize in between) returns current_usage to its value
\* before the allocate.
C10_AllocRelease ==
    /\ [](AllocGivesSize)
    /\ [](ReleaseLowersUsage)
    /\ [][ReleaseRestoresUsage]_vars

\* a live block was released while another block was still in use
C10_Witness ==
    /\ last.op = "free"
    /\ Live(last.pre)
    /\ g_stats.current_usage > 0
    /\ g_stats.current_usage = WSub(last.usage, last.pre.size)

(***************************************************************************)
(* Properties of the daemon, checked under Spec.                           *)
(***************************************************************************)
\* the last request was dispatched and carried one of the commands cmds
Dispatched(cmds) ==
    /\ req.fate = "dispatched"
    /\ req.header.command \in cmds

\* the request was answered by exactly one bare message cmd(handle)
Answered(cmd, handle) ==
    /\ Len(resp) = 1
    /\ resp[1].command = cmd
    /\ resp[1].handle = handle
    /\ resp[1].size = 0
    /\ resp[1].payload = <<>>

\* the dispatch changed no block, no statistic and no table entry
Untouched == obs.blocks_same /\ obs.stats_same /\ obs.tab_same

C2_ForeignHandleRejected ==
    ( /\ Dispatched({ETHER_CMD_READ, ETHER_CMD_WRITE, ETHER_CMD_FREE})
      /\ obs.foreign )
    => /\ Answered(ETHER_CMD_ERROR, req.header.handle)
       /\ Untouched

\* C3: handles returned by store are never 0 and each is greater than every
\* handle returned before, also when a table slot is reused; an ALLOC that
\* fails, for exhaustion of the table included, consumes no handle value.
C3_HandlesIncrease ==
    Dispatched({ETHER_CMD_ALLOC}) =>
      /\ Len(resp) = 1
      /\ resp[1].command \in {ETHER_CMD_OK, ETHER_CMD_ERROR}
      /\ resp[1].command = ETHER_CMD_OK =>
           /\ resp[1].handle # 0
           /\ resp[1].handle > obs.issued_max
           /\ \A i \in Slots : g_handles[i].in_use =>
                g_handles[i].handle <= resp[1].handle
           /\ g_next_handle > resp[1].handle
      /\ resp[1].command = ETHER_CMD_ERROR => g_next_handle = obs.next

\* an ALLOC was refused because the table was full: the block was allocated
\* and released again, and the counter stands where it stood
C3_Witness ==
    /\ Dispatched({ETHER_CMD_ALLOC})
    /\ resp[1].command = ETHER_CMD_ERROR
    /\ FreeSlots(g_handles) = {}
    /\ ~obs.stats_same
    /\ g_next_handle = HANDLE_SLOTS + 1

\* the first entry of the table that carries the request's handle
EntryOfReq == g_handles[FirstSlot(EntriesOf(req.header.handle))]

\* C6: for a live handle h and every size with 0 <= size <= stored size,
\* size 0 included, WRITE(h, size, payload) is answered OK(h) and the block
\* then starts with the payload, which a following READ(h, size) returns.
C6_WriteSuccess ==
    ( /\ Dispatched({ETHER_CMD_WRITE})
      /\ obs.live
      /\ req.header.size <= obs.size )
    => /\ Answered(ETHER_CMD_OK, req.header.handle)
       /\ SubSeq(blocks[EntryOfReq.ptr].data, 1, req.header.size) = req.payload

\* C8: for a live handle h, a WRITE whose size exceeds the stored size is
\* answered ERROR(h), no byte is written, the stored size and the block's
\* size are unchanged, and the handle stays live.
C8_WriteOverflowRejected ==
    ( /\ Dispatched({ETHER_CMD_WRITE})
      /\ obs.live
      /\ req.header.size > obs.size )
    => /\ Answered(ETHER_CMD_ERROR, req.header.handle)
       /\ Untouched
       /\ EntriesOf(req.header.handle) # {}
       /\ EntryOfReq.size = obs.size
       /\ Live(blocks[EntryOfReq.ptr])
       /\ ether_size(Mem, EntryOfReq.ptr) = obs.size
       /\ blocks[EntryOfReq.ptr].data = obs.data

\* an oversized WRITE with non-zero bytes was refused
C8_Witness ==
    /\ Dispatched({ETHER_CMD_WRITE})
    /\ obs.live
    /\ req.header.size > obs.size
    /\ req.payload = [i \in 1..req.header.size |-> MaxByte]
    /\ Answered(ETHER_CMD_ERROR, req.header.handle)

AllocZeroStep ==
    ( /\ ncalls' = ncalls + 1
      /\ last'.op = "alloc"
      /\ last'.n = 0 )
    => /\ last'.ret = NULL
       /\ g_stats' = g_stats
       /\ blocks' = blocks

\* C11: allocate(0) always fails: it returns no region, in every allocator
\* state, and changes no statistic counter.
C11_AllocZeroFails == [][AllocZeroStep]_vars

\* allocate(0) was refused while a block was live
C11_Witness ==
    /\ last.op = "alloc"
    /\ last.n = 0
    /\ last.ret = NULL
    /\ g_stats.current_usage > 0

\* an ether_free of a block whose magic is BLOCK_FREED reports an error and
\* leaves the six counters and every block, its tag and bytes, as they were
DoubleFreeStep ==
    ( /\ ncalls' = ncalls + 1
      /\ last'.op = "free"
      /\ last'.ptr # NULL
      /\ blocks[last'.ptr].magic = BLOCK_FREED )
    => /\ last'.report \in {"invalid free", "double free"}
       /\ g_stats' = g_stats
       /\ blocks' = blocks

\* C12: a release on a region whose tag is already FREED is reported as an
\* error, changes none of the six statistics counters, leaves the block's
\* tag and bytes untouched, and does not release the storage a second time.
C12_DoubleFreeRejected == [][DoubleFreeStep]_vars

\* a block was released twice; the second release was reported and not counted
C12_Witness ==
    /\ last.op = "free"
    /\ last.pre.magic = BLOCK_FREED
    /\ last.report = "invalid free"
    /\ g_stats.num_frees = 1
    /\ ~blocks[last.ptr].held

(***************************************************************************)
(* Properties of the protocol functions, checked under SpecProtocol.       *)
(***************************************************************************)
\* buffer holds every field of header most-significant byte first at the
\* field's offset, in ETHER_HEADER_SIZE bytes
BigEndianLayout(header, buffer) ==
    /\ Len(buffer) = ETHER_HEADER_SIZE
    /\ \A f \in HeaderFields : \A k \in 0..(f[3] - 1) :
         buffer[f[2] + k + 1] = ShrByte(header[f[1]], f[3] - 1 - k)

\* C13: for every combination of values of the seven fields within their
\* widths, deserialize(serialize(h)) equals h in all seven fields, and
\* serialize writes exactly 24 bytes with each multi-byte field
\* most-significant byte first at offsets 0, 4, 5, 6, 8, 16, 20.
C13_HeaderRoundTrip ==
    /\ proto.op \in {"serialized", "deserialized"} =>
         BigEndianLayout(proto.header, proto.buffer)
    /\ proto.op = "deserialized" => proto.out = proto.header

\* a header whose bytes all differ from their neighbours came back from the
\* buffer of a little-endian host, decoded into a header that held other values
C13_Witness ==
    /\ proto.op = "deserialized"
    /\ proto.little_endian
    /\ proto.header = UniformHeader([w \in FieldWidths |-> Pattern(w)])
    /\ proto.out = proto.header
    /\ proto.fresh # proto.header

\* C14: validation accepts a header if and only if magic equals the
\* sentinel, version equals ETHER_PROTOCOL_VER and size <= the maximum
\* payload, the bound itself accepted; command, flags, handle and reserved
\* never influence the result, and a null header is rejected.
C14_ValidateIff ==
    proto.op = "validated" =>
      ( proto.ok <=>
          /\ ~proto.header_null
          /\ proto.header.magic = ETHER_MAGIC
          /\ proto.header.version = ETHER_PROTOCOL_VER
          /\ proto.header.size \in 0..ETHER_MAX_PAYLOAD )

\* a header of the maximum size with an unassigned command and non-zero
\* flags, handle and reserved was accepted
C14_Witness ==
    /\ proto.op = "validated"
    /\ proto.ok
    /\ proto.header.size = ETHER_MAX_PAYLOAD
    /\ proto.header.command = UNASSIGNED_CMD
    /\ proto.header.flags = 1
    /\ proto.header.handle = 1
    /\ proto.header.reserved = 1

(***************************************************************************)
(* Error paths of the daemon, checked under Spec.                          *)
(***************************************************************************)
\* a header is dropped exactly when it fails validation
DroppedIffInvalid ==
    req.fate # "none" =>
      (req.fate = "dropped" <=> ~ether_msg_validate(FALSE, req.header))

\* the step that receives a header failing validation sends nothing, stays
\* at the header read of the same connection and changes no block, table
\* entry or statistic
DropStep ==
    ( /\ nreq' = nreq + 1
      /\ ~ether_msg_validate(FALSE, req'.header) )
    => /\ resp' = <<>>
       /\ pc' = "header"
       /\ conn' = conn
       /\ req'.conn = conn
       /\ UNCHANGED <<blocks, g_stats, g_handles, g_next_handle>>

\* C15: when a received header fails validation, the server sends no
\* response, reads no payload for it, changes no block, handle-table entry
\* or statistic, keeps the connection open and reads the next header.
C15_InvalidHeaderDropped == [](DroppedIffInvalid) /\ [][DropStep]_vars

\* a header with a wrong magic that announces a payload was dropped while a
\* handle was live
C15_Witness ==
    /\ req.fate = "dropped"
    /\ req.header.magic = BAD_MAGIC
    /\ req.header.size > 0
    /\ pc = "header"
    /\ resp = <<>>
    /\ \E i \in Slots : g_handles[i].in_use

\* r is exactly one message cmd(handle) with no payload
OneBare(r, cmd, handle) ==
    /\ Len(r) = 1
    /\ r[1].command = cmd
    /\ r[1].handle = handle
    /\ r[1].size = 0
    /\ r[1].payload = <<>>

\* the blocks of memory b that are allocated
LiveBlocks(b) == {a \in Addrs : Live(b[a])}

\* the dispatch of an ALLOC that finds every slot in use answers ERROR(0),
\* releases whatever it allocated, and leaves table, LIVE blocks and
\* current_usage as they were
AllocOnFullTableStep ==
    ( /\ pc = "payload"
      /\ pc' = "header"
      /\ cur.command = ETHER_CMD_ALLOC
      /\ FreeSlots(g_handles) = {} )
    => /\ OneBare(resp', ETHER_CMD_ERROR, 0)
       /\ g_handles' = g_handles
       /\ g_next_handle' = g_next_handle
       /\ LiveBlocks(blocks') = LiveBlocks(blocks)
       /\ \A a \in LiveBlocks(blocks) : blocks'[a] = blocks[a]
       /\ g_stats'.current_usage = g_stats.current_usage
       /\ WSub(g_stats'.num_allocs, g_stats.num_allocs)
            = WSub(g_stats'.num_frees, g_stats.num_frees)

\* C16: when every table slot is in use, ALLOC(size>0) is answered
\* ERROR(handle=0), the block allocated for it is released before the
\* response, and the set of live handles, the number of LIVE blocks and
\* current_usage are afterwards what they were before the request.
C16_AllocOnFullTable == [][AllocOnFullTableStep]_vars

\* an ALLOC met a full table: its block was allocated and released again
C16_Witness ==
    /\ Dispatched({ETHER_CMD_ALLOC})
    /\ OneBare(resp, ETHER_CMD_ERROR, 0)
    /\ \A i \in Slots : g_handles[i].in_use
    /\ g_stats.num_allocs = HANDLE_SLOTS + 1
    /\ g_stats.num_frees = 1
    /\ Cardinality(LiveBlocks(blocks)) = HANDLE_SLOTS

\* the handles ALLOC has returned so far
IssuedHandles == {p[1] : p \in owner}

\* C17: FREE of a handle that is not in the table because it was never
\* issued, handle 0 included, is answered ERROR carrying that same handle,
\* and changes no statistic counter, no block and no table entry.
C17_FreeUnknownHandle ==
    ( /\ Dispatched({ETHER_CMD_FREE})
      /\ req.header.handle \notin IssuedHandles )
    => /\ Answered(ETHER_CMD_ERROR, req.header.handle)
       /\ Untouched

\* a FREE of the handle value the next ALLOC would get was refused while
\* another handle was live
C17_Witness ==
    /\ Dispatched({ETHER_CMD_FREE})
    /\ req.header.handle = g_next_handle
    /\ req.header.handle \notin IssuedHandles
    /\ Answered(ETHER_CMD_ERROR, req.header.handle)
    /\ \E i \in Slots : g_handles[i].in_use

\* the commands the switch of handle_client has a case for
HandledCommands ==
    {ETHER_CMD_PING, ETHER_CMD_ALLOC, ETHER_CMD_FREE, ETHER_CMD_WRITE,
     ETHER_CMD_READ}

\* C18: a validated request whose command byte is not PING, ALLOC, FREE,
\* WRITE or READ (REALLOC, PONG, OK, ERROR and unassigned codes included) is
\* answered ERROR with handle 0 and no payload, and changes no block, table
\* entry or statistic.
C18_UnknownCommand ==
    ( /\ req.fate = "dispatched"
      /\ req.header.command \notin HandledCommands )
    => /\ Answered(ETHER_CMD_ERROR, 0)
       /\ Untouched

\* a REALLOC that named a live handle and carried a payload was answered
\* ERROR(0)
C18_Witness ==
    /\ req.fate = "dispatched"
    /\ req.header.command = ETHER_CMD_REALLOC
    /\ req.header.size > 0
    /\ obs.live
    /\ req.header.handle # 0
    /\ Answered(ETHER_CMD_ERROR, 0)

\* the one ERROR message that names handle: every field but the handle is
\* fixed and there is no payload
ErrorMessage(handle) ==
    [magic |-> ETHER_MAGIC, version |-> ETHER_PROTOCOL_VER,
     command |-> ETHER_CMD_ERROR, flags |-> 0, handle |-> handle,
     size |-> 0, reserved |-> 0, payload |-> <<>>]

\* C19: every ERROR response carries nothing but the handle: the request's
\* handle for a failed FREE, WRITE or READ, 0 for a failed ALLOC or an
\* unknown command; size, flags and reserved are 0 and there is no payload,
\* so failures of different cause on one handle give identical responses.
C19_ErrorCarriesOnlyHandle ==
    \A i \in 1..Len(resp) :
      resp[i].command = ETHER_CMD_ERROR =>
        /\ req.fate = "dispatched"
        /\ resp[i] =
             ErrorMessage(IF req.header.command \in HandleCommands
                          THEN req.header.handle ELSE 0)

\* a WRITE to a live handle failed inside ether_write, not in the lookup,
\* and was answered like a WRITE to an unknown handle
C19_Witness ==
    /\ Dispatched({ETHER_CMD_WRITE})
    /\ obs.live
    /\ req.header.size <= obs.size
    /\ req.header.handle # 0
    /\ resp = <<ErrorMessage(req.header.handle)>>

\* the request the loop has just handled was answered by one message, header
\* then size payload bytes, and the loop is back at reading a header; a
\* request whose payload is awaited has no answer yet; every request in
\* hand belongs to the one connection being served
OneAtATime ==
    /\ req.fate = "dispatched" =>
         /\ pc = "header"
         /\ Len(resp) = 1
         /\ resp[1].size = Len(resp[1].payload)
         /\ (resp[1].command = ETHER_CMD_PONG) =
              (req.header.command = ETHER_CMD_PING)
         /\ req.header.command \in HandleCommands =>
              resp[1].handle = req.header.handle
    /\ (req.fate = "awaiting payload") = (pc = "payload")
    /\ req.fate = "awaiting payload" => resp = <<>>
    /\ req.fate # "none" => req.conn = conn /\ pc # "accept"
    /\ pc = "accept" => req = NoReq /\ resp = <<>>

\* a header is read only by a loop that is waiting for one, so after the
\* previous request was answered or dropped; a connection is accepted only
\* when no loop runs, and it is the next connection
SequentialStep ==
    /\ nreq' # nreq =>
         /\ pc = "header"
         /\ req.fate \in {"none", "dropped", "dispatched"}
         /\ req.fate = "dispatched" => Len(resp) = 1
         /\ req'.conn = conn
    /\ conn' # conn =>
         /\ pc = "accept"
         /\ req = NoReq
         /\ conn' = conn + 1
         /\ UNCHANGED <<nreq, req, resp, blocks, g_stats, g_handles>>
    /\ (pc # "accept" /\ pc' # "accept") => conn' = conn

C21_CompleteReads ==
    req.fate = "dispatched" =>
      /\ req.header_read = ETHER_HEADER_SIZE
      /\ req.payload_read = req.header.size

\* the last call released a LIVE block: ether_free, or ether_realloc with
\* new_size 0
Released ==
    /\ last.ptr # NULL
    /\ is_valid_block(last.pre)
    /\ \/ last.op = "free"
       \/ last.op = "realloc" /\ last.n = 0

\* C22: release wipes the region: after a successful release of a LIVE block
\* every byte of its data area, over its full capacity and including the
\* bytes hidden by an earlier in-place shrink, is zero
C22_ReleaseWipes ==
    Released => \A i \in 1..last.pre.capacity : blocks[last.ptr].data[i] = 0

\* the block ether_alloc(size) leaves behind the pointer it returns
ZeroBlock(size) ==
    [held |-> TRUE, magic |-> BLOCK_MAGIC, flags |-> FLAG_ALLOCATED,
     size |-> size, capacity |-> size, data |-> Zeros(size)]

FreshHandleIsZero ==
    (Dispatched({ETHER_CMD_ALLOC}) /\ resp[1].command = ETHER_CMD_OK) =>
      LET found == lookup_handle(g_handles, resp[1].handle)
      IN /\ found.ptr # NULL
         /\ found.size = req.header.size
         /\ blocks[found.ptr] = ZeroBlock(req.header.size)

\* the last call was a resize to n > 0 of a LIVE region that returned a region
Resized ==
    /\ last.op = "realloc"
    /\ last.ptr # NULL
    /\ last.n > 0
    /\ Live(last.pre)
    /\ last.ret # NULL

ResizeFails ==
    /\ ncalls' # ncalls
    /\ last'.op = "realloc"
    /\ last'.ptr # NULL
    /\ last'.n > 0
    /\ last'.ret = NULL

\* such a step happens only on an invalid region or a failed malloc, and it
\* changes no block and no counter
FailedResizeStep ==
    ResizeFails =>
      /\ \/ ~is_valid_block(last'.pre)
         \/ last'.n > last'.pre.capacity
      /\ blocks'[last'.ptr] = last'.pre
      /\ UNCHANGED <<blocks, g_stats>>

\* C25: a resize that fails, because the new allocation fails or the region
\* is not valid, leaves the original region as it was (LIVE, same size,
\* capacity and contents) and leaves every statistics counter unchanged
C25_FailedResize == [][FailedResizeStep]_vars

\* the resize of a LIVE region holding a non-zero byte failed in malloc
C25_Witness ==
    /\ last.op = "realloc"
    /\ last.ret = NULL
    /\ Live(last.pre)
    /\ last.n > last.pre.capacity
    /\ \E i \in 1..last.pre.size : last.pre.data[i] # 0
    /\ Live(blocks[last.ptr])

\* a resize(none, n) step does what some allocate(n) does in the same state
ResizeNoneStep ==
    (ncalls' # ncalls /\ last'.op = "realloc" /\ last'.ptr = NULL) =>
      \E chunk \in MallocOutcomes(Mem) :
        LET a == ether_alloc(Mem, last'.n, chunk)
        IN /\ last'.ret = a.ret
           /\ blocks' = a.m.blocks
           /\ g_stats' = a.m.stats
           /\ last'.n = 0 => last'.ret = NULL

\* a resize(region, 0) step does what release(region) does in the same state
ResizeZeroStep ==
    (ncalls' # ncalls /\ last'.op = "realloc" /\ last'.ptr # NULL
       /\ last'.n = 0) =>
      LET f == ether_free(Mem, last'.ptr)
      IN /\ last'.ret = NULL
         /\ blocks' = f.m.blocks
         /\ g_stats' = f.m.stats

\* C26: resize(none, n) has the result and the effect on blocks and
\* statistics of allocate(n), failure for n = 0 included, and
\* resize(region, 0) has the effect of release(region) and returns no region
C26_ResizeDelegates == [][ResizeNoneStep /\ ResizeZeroStep]_vars

\* resize(region, 0) has released a LIVE block
C26_Witness ==
    /\ last.op = "realloc"
    /\ last.ptr # NULL
    /\ last.n = 0
    /\ last.ret = NULL
    /\ Live(last.pre)
    /\ blocks[last.ptr].magic = BLOCK_FREED
    /\ g_stats.num_frees = 1

\* a reset_statistics step leaves every counter 0 and every block as it was
ResetStep ==
    (ncalls' # ncalls /\ last'.op = "reset_stats") =>
      /\ g_stats' = ZeroStats
      /\ blocks' = blocks

\* what a call adds to each counter
StatsDelta(before, after) ==
    [c \in DOMAIN ZeroStats \ {"peak_usage"} |-> WSub(after[c], before[c])]

\* in the state a reset would leave, write, read, size_of and release give
\* the results, the blocks and the counter changes they give without it
ResetIsInvisible ==
    LET r == ether_reset_stats(Mem)
    IN \A ptr \in KnownPtrs :
         /\ ether_size(r, ptr) = ether_size(Mem, ptr)
         /\ \A len \in 0..(MaxSize + 1) :
              ether_read(r, ptr, FALSE, len) = ether_read(Mem, ptr, FALSE, len)
         /\ \A D \in BytesUpTo(MaxSize + 1) :
              LET a == ether_write(r, ptr, FALSE, D, Len(D))
                  b == ether_write(Mem, ptr, FALSE, D, Len(D))
              IN /\ a.ret = b.ret
                 /\ a.m.blocks = b.m.blocks
                 /\ a.m.stats = r.stats
         /\ LET a == ether_free(r, ptr)
                b == ether_free(Mem, ptr)
            IN /\ a.report = b.report
               /\ a.m.blocks = b.m.blocks
               /\ StatsDelta(r.stats, a.m.stats) =
                    StatsDelta(Mem.stats, b.m.stats)

\* C27: reset_statistics sets all six counters to 0 and leaves every live
\* allocation unchanged: each LIVE block keeps its tag, size, capacity and
\* contents, and later write, read, size_of and release on it behave as they
\* would without the reset
C27_ResetKeepsBlocks == [](ResetIsInvisible) /\ [][ResetStep]_vars

\* a filled block was released after a reset of the statistics
C27_Witness ==
    /\ last.op = "free"
    /\ Live(last.pre)
    /\ \E i \in 1..last.pre.size : last.pre.data[i] # 0
    /\ blocks[last.ptr].magic = BLOCK_FREED
    /\ g_stats.num_allocs = 0
    /\ g_stats.num_frees = 1

\* C30: ALLOC and READ requests consist of the header only, their size field
\* giving the bytes to allocate or to read: the server answers them after
\* receiving just the header and never waits for payload bytes of theirs
C30_HeaderOnlyRequests ==
    req.header.command \in {ETHER_CMD_ALLOC, ETHER_CMD_READ} =>
      /\ req.fate # "awaiting payload"
      /\ pc # "payload"

(***************************************************************************)
(* Properties of the client library, checked under SpecClient.             *)
(***************************************************************************)
\* an ether_rfree that sent, or tried to send, FREE removes the entry,
\* whatever came back
RfreeStep ==
    (ncalls' # ncalls /\ last'.op = "rfree" /\ Cached(g_cache, last'.ptr)) =>
      /\ Len(last'.sent) = 1
      /\ last'.sent[1].command = ETHER_CMD_FREE
      /\ ~Cached(g_cache', last'.ptr)
      /\ \A i \in CacheSlots :
           g_cache[i].local_ptr # last'.ptr => g_cache'[i] = g_cache[i]

\* a token stays without entry from its ether_rfree until calloc hands its
\* address out again
ReleasedUncached ==
    \A a \in LocalAddrs : lheap[a].state = "freed" => ~Cached(g_cache, a)

\* a call on a token without entry, such as the call that follows its
\* ether_rfree, sends nothing; rwrite and rread return NotFound and rsize
\* returns 0
AfterRfreeStep ==
    ( /\ ncalls' # ncalls
      /\ last'.ptr # NULL
      /\ ~Cached(g_cache, last'.ptr)
      /\ last'.op \in {"rwrite", "rread", "rsize"} ) =>
      /\ last'.sent = <<>>
      /\ last'.ret = IF last'.op = "rsize" THEN 0 ELSE ETHER_ERR_NOTFOUND
      /\ UNCHANGED clientVars

\* C28: client FREE is unconditional locally: once ether_rfree has sent, or
\* tried to send, FREE for a cached token the cache entry is removed whether
\* the server answers OK or ERROR or the receive fails; afterwards rwrite
\* and rread on that token return NotFound and rsize returns 0 without
\* sending any message
C28_RfreeUnconditional ==
    [](ReleasedUncached) /\ [][RfreeStep /\ AfterRfreeStep]_vars

\* a token was released and a write through it was then refused locally
C28_Witness ==
    /\ last.op = "rwrite"
    /\ last.ptr # NULL
    /\ lheap[last.ptr].state = "freed"
    /\ last.n > 0
    /\ last.ret = ETHER_ERR_NOTFOUND
    /\ last.sent = <<>>

\* the server answered the call's request with OK
AnsweredOK(call) ==
    /\ call.sent # <<>>
    /\ call.net.sent
    /\ call.net.recv
    /\ call.net.command = ETHER_CMD_OK

\* an ether_rwrite never changes the cache; it copies the len bytes it sent
\* over the start of the mirror buffer when the server answered OK, and
\* otherwise leaves every buffer as it was and reports a failure
RwriteStep ==
    (ncalls' # ncalls /\ last'.op \in {"rwrite", "rwrite_null"}) =>
      /\ g_cache' = g_cache
      /\ IF AnsweredOK(last')
         THEN /\ last'.ret = ETHER_OK
              /\ last'.sent = <<Message(ETHER_CMD_WRITE,
                                       cache_lookup(g_cache, last'.ptr).handle,
                                       last'.n, last'.data)>>
              /\ lheap' = [lheap EXCEPT ![last'.ptr].data =
                             [i \in 1..Len(@) |->
                                IF i <= last'.n THEN last'.data[i] ELSE @[i]]]
         ELSE /\ last'.ret # ETHER_OK
              /\ lheap' = lheap

\* C29: client write-through: ether_rwrite overwrites the first len bytes of
\* the token's mirror buffer with the bytes sent if and only if the server
\* answered OK; on a local bounds failure, a send or receive failure or an
\* ERROR response the mirror buffer and the cache entry are unchanged
C29_WriteThrough == [][RwriteStep]_vars

\* a write of non-zero bytes was answered OK and is in the mirror buffer
C29_Witness ==
    /\ last.op = "rwrite"
    /\ AnsweredOK(last)
    /\ last.n > 0
    /\ \A i \in 1..last.n : last.data[i] # 0 /\ lheap[last.ptr].data[i] # 0

(***************************************************************************)
(* Properties of the last ten claims.                                      *)
(***************************************************************************)
\* a call that only works on a block succeeded
SucceededOnBlock ==
    \/ last.op \in {"write", "read"} /\ last.ret = ETHER_OK
    \/ last.op = "size" /\ last.ret # 0

\* C32: in every reachable state each block has size <= capacity and carries
\* the LIVE tag exactly when its chunk is allocated and not yet released;
\* write, read and size_of succeed only on a block whose tag was LIVE
C32_BlockHeaderInvariant ==
    /\ \A a \in Addrs :
         /\ blocks[a].size <= blocks[a].capacity
         /\ (blocks[a].magic = BLOCK_MAGIC) <=> blocks[a].held
         /\ blocks[a].held => blocks[a].flags % 2 = FLAG_ALLOCATED
    /\ SucceededOnBlock => last.ptr # NULL /\ last.pre.magic = BLOCK_MAGIC

\* a write succeeded on a LIVE block while another block had been released
C32_Witness ==
    /\ last.op = "write"
    /\ last.ret = ETHER_OK
    /\ last.n > 0
    /\ \E a \in Addrs : blocks[a].magic = BLOCK_FREED /\ ~blocks[a].held

\* the sum of size over the blocks S of memory b
RECURSIVE SumOfSizes(_, _)
SumOfSizes(b, S) ==
    IF S = {} THEN 0
    ELSE LET a == CHOOSE x \in S : TRUE
         IN b[a].size + SumOfSizes(b, S \ {a})

\* C35: with no reset_statistics call, current_usage is the sum of size over
\* the blocks whose tag is LIVE, and 0 when no block is LIVE
C35_UsageIsLiveSum ==
    g_stats.current_usage = SumOfSizes(blocks, LiveBlocks(blocks)) % WordMod

\* C39: for every size of the machine word, ether_alloc(size) fails or has
\* reserved at least size bytes behind the header: what it writes, the header
\* and size zero bytes, lies within the total it asked of malloc
C39_NoWrappedReservation ==
    proto.op = "ether_alloc" /\ proto.ret # NULL
        => /\ proto.total >= HEADER_SIZE
           /\ proto.total - HEADER_SIZE >= proto.size
           /\ proto.written <= proto.total

\* the entries of g_handles that are in use
InUse == {i \in Slots : g_handles[i].in_use}

\* what every lookup finds: each in-use entry references a LIVE block whose
\* size is the entry's cached size, and no two in-use entries share a handle
\* or a region
TableConsistent ==
    /\ \A i \in InUse :
         /\ g_handles[i].ptr # NULL
         /\ g_handles[i].handle # 0
         /\ Live(blocks[g_handles[i].ptr])
         /\ blocks[g_handles[i].ptr].size = g_handles[i].size
    /\ \A i, j \in InUse :
         i # j => /\ g_handles[i].handle # g_handles[j].handle
                  /\ g_handles[i].ptr # g_handles[j].ptr

\* a FREE that found its handle has released the block and removed the entry
\* when the next request is looked at: the handle is in no entry and no LIVE
\* block is left outside the table
FreeDoesBoth ==
    ( /\ Dispatched({ETHER_CMD_FREE})
      /\ obs.live )
    => /\ Answered(ETHER_CMD_OK, req.header.handle)
       /\ EntriesOf(req.header.handle) = {}
       /\ ~obs.blocks_same
       /\ ~obs.tab_same
       /\ LiveBlocks(blocks) = {g_handles[i].ptr : i \in InUse}

\* C33: the FREE handler releases the block and removes the entry with no
\* lookup in between, so at every lookup each in-use entry references a LIVE
\* block of the cached size and no two in-use entries share a handle or a
\* region
C33_TableConsistent == TableConsistent /\ FreeDoesBoth

\* a FREE released one of two live handles
C33_Witness ==
    /\ Dispatched({ETHER_CMD_FREE})
    /\ obs.live
    /\ Answered(ETHER_CMD_OK, req.header.handle)
    /\ InUse # {}
    /\ \E a \in Addrs : blocks[a].magic = BLOCK_FREED

\* the step ends the connection or accepts the next one
ConnectionChanges == (pc # "accept" /\ pc' = "accept") \/ conn' # conn

\* ending a connection and accepting the next one touch no block, no
\* statistic and no table entry
CloseStep ==
    ConnectionChanges => UNCHANGED <<blocks, g_stats, g_handles, g_next_handle>>

\* a READ, a FREE or a WRITE of 1..size bytes that finds a handle issued on
\* an earlier connection is served
LaterConnectionServed ==
    ( /\ Dispatched({ETHER_CMD_READ, ETHER_CMD_WRITE, ETHER_CMD_FREE})
      /\ obs.live
      /\ obs.foreign
      /\ req.header.command = ETHER_CMD_WRITE
           => req.header.size \in 1..obs.size )
    => /\ Len(resp) = 1
       /\ resp[1].command = ETHER_CMD_OK
       /\ resp[1].handle = req.header.handle

\* C34: closing a connection frees nothing: blocks not FREEd stay LIVE, their
\* handles stay in the table, current_usage is not reduced, and a later
\* connection can READ, WRITE and FREE them
C34_CloseFreesNothing == [](LaterConnectionServed) /\ [][CloseStep]_vars

\* a later connection released a block allocated over an earlier one
C34_Witness ==
    /\ Dispatched({ETHER_CMD_FREE})
    /\ obs.live
    /\ obs.foreign
    /\ conn > 1
    /\ Answered(ETHER_CMD_OK, req.header.handle)
    /\ g_stats.current_usage = 0
    /\ g_stats.num_frees = 1

(***************************************************************************)
(* Properties of the client library's messages.                            *)
(***************************************************************************)
\* C38: every message the client sends carries a size field equal to the
\* length of the payload it was created with, so send_message transmits no
\* byte beyond the message's payload
C38_SizeIsPayloadLength ==
    \A k \in 1..Len(last.sent) : last.sent[k].size = Len(last.sent[k].payload)

(***************************************************************************)
(* Properties of the client library and the daemon together, checked      *)
(* under SpecRemote.                                                       *)
(***************************************************************************)
\* no call waits in recv_response
Idle == link.call.op = "none"

\* C36: whenever ether_rmalloc returns NULL, also after the server answered
\* OK and the local buffer or the cache entry could not be had, the block
\* the server allocated for the call is not LIVE any more
C36_NoLeakOnFailure ==
    ( /\ Idle
      /\ last.op = "rmalloc"
      /\ last.ret = NULL
      /\ AnsweredOK(last)
      /\ Dispatched({ETHER_CMD_ALLOC}) )
    => /\ EntriesOf(last.net.handle) = {}
       /\ LiveBlocks(blocks) = {g_handles[i].ptr : i \in InUse}

\* C37: for every size passed to ether_rmalloc, each valid entry of the
\* client's cache has the size the server's table holds for its handle
C37_SizesAgree ==
    \A k \in CacheSlots :
      g_cache[k].valid =>
        \A i \in EntriesOf(g_cache[k].remote_handle) :
          g_handles[i].size = g_cache[k].size

\* the last call returned after a complete exchange
ReturnedWithoutNetworkError == Idle /\ last.op # "none" /\ last.net.sent /\ last.net.recv

\* C40: after a client operation that returns without a network error every
\* byte of the response has been read, so the next recv_response starts at
\* a header
C40_ResponseConsumed == ReturnedWithoutNetworkError => link.stray = 0

\* C31: every client operation issued on the open connection eventually
\* returns a result to its caller, for every argument value (as far as the
\* daemon's bound on received headers lets the model follow it)
C31_EveryCallReturns == ~Idle ~> (Idle \/ nreq = MaxReq)

=============================================================================
